---------------------------- MODULE Spec2Model ----------------------------
(***************************************************************************)
(* A model of htpack: the pack builder (packer.Pack), the pack loader      *)
(* (packed.Load) and the serving handler (htpack.Handler).                 *)
(*                                                                         *)
(* Strings the code parses (paths, header values) are sequences of         *)
(* symbols.  A symbol is one character, or a block of characters none of   *)
(* which is a separator the code looks for (an ETag, a date).              *)
(*                                                                         *)
(* The content of a file is a set of extents [off, len, src]: the bytes    *)
(* [off, off+len) hold the bytes of the object src, byte off+k being the   *)
(* k-th byte of src.  Bytes covered by no extent are a hole.               *)
(***************************************************************************)
EXTENDS Integers, Sequences, FiniteSets, TLC

VARIABLES
    \* ---- builder (packer.Pack) and loader (packed.Load) ----
    filesToPack,  \* Pack's argument: URL path -> FileToPack
    BrotliPath,   \* the package variable BrotliPath ("" disables brotli)
    ppc,          \* Pack's position: "new", "files", "finish", "done", "loaded"
    todo,         \* paths the range loop over filesToPack has not visited
    pw,           \* the packWriter and its output file: [err, pos, size, ext]
    dir,          \* Pack's directory under construction: path -> File
    tmpfile,      \* the temporary output file: "none", "open", "removed", "renamed"
    target,       \* the file at outputFilename: NoFile or [size, ext]
    ret,          \* what Pack returned: "none", "ok", "err"
    hist,         \* history of the build: [failed, dirWritten, hdrWritten, dirPos, dirLen]
    loaded,       \* what Load returned for the target: NotLoaded or [cause, path, hdr, dir]
    \* ---- handler (htpack.Handler) ----
    handler,      \* the Handler h: [dir, headers, startTime]
    hpc,          \* the handler's position: "idle", "sendfile", "flush", "loop", "done"
    nset,         \* SetHeader calls made since New
    req,          \* the request ServeHTTP is handling: NoReq or [Method, Path, Header]
    rw,           \* the ResponseWriter w: [kind, header, status, hijacked]
    xfer,         \* sendfile's arguments: NoXfer or [data, offset, length]
    sf,           \* sendfile's locals and the hijacked connection: [off, remain, breakErr, open]
    wire,         \* what the client has received: [head, body]
    \* ---- New ----
    held,         \* what the process holds of the pack file: [fd, mapped]
    newret,       \* what New returned: "none", "handler", "err"
    \* ---- concurrent requests ----
    parked,       \* the request of the goroutine that is not running:
                  \* [hpc, req, rw, xfer, sf, wire]
    \* ---- SetIndex ----
    indexed,      \* history of the SetIndex calls: [filename, before], before
                  \* being h.dir when the call was made
    \* ---- SetHeader ----
    lastset,      \* history of the SetHeader calls: for each key SetHeader
                  \* was called with, the value of the most recent call
    \* ---- packserver's addHeaders ----
    extraHeaders, \* the headers the operator gave: name -> value
    \* ---- a call of packWriter.CopyIfSaving ----
    copied        \* NotCopied, or the call made: [c, u, fail, n, err, before]

packVars == <<filesToPack, BrotliPath, ppc, todo, pw, dir, tmpfile, target, ret,
              hist, loaded>>

serveVars == <<handler, hpc, nset, req, rw, xfer, sf, wire>>

newVars == <<held, newret, parked, indexed, lastset, extraHeaders, copied>>

vars == <<packVars, serveVars, newVars>>

-----------------------------------------------------------------------------
(* Bounds of the model. *)

\* the largest number of entries of filesToPack
MaxFiles == 2

\* the largest number of SetHeader calls made on a handler after New
MaxSetHeader == 2

\* the largest number of map entries in the directory of a pack file that
\* Pack did not write
MaxEntries == 2

\* the most SetIndex calls made on a handler, and the most entries of the
\* directory they are made on
MaxSetIndex == 2

MaxRoutes == 3

\* the width in bits of the model's unsigned integers, which stands for the
\* 64 bits of uint64
UintBits == 24

-----------------------------------------------------------------------------
(* Program constants. *)

\* packWriter.Pad: pos &= 0xFFF; Seek(4096-pos)
PageSize == 4096

\* loadHeader: raw := make([]byte, 36)
HeaderLen == 36

\* one header field on the wire: a 1-byte tag and a fixed64
FieldLen == 9

minCompressionSaving == 128

minCompressionFraction == 7

\* packed.Magic, as the text of its hexadecimal constant
Magic == "0xb6e61a4b415ed33b"

\* the zero value of the fixed64 magic field
MagicZero == "0x0"

VersionInitial == 1

-----------------------------------------------------------------------------
(* Arithmetic and sequence helpers. *)

Max(a, b) == IF a >= b THEN a ELSE b

Min(a, b) == IF a <= b THEN a ELSE b

RECURSIVE Pow2(_)
Pow2(n) == IF n = 0 THEN 1 ELSE 2 * Pow2(n - 1)

\* x >> n on unsigned integers
ShiftRight(x, n) == x \div Pow2(n)

\* the number of values of an unsigned integer
Modulus == Pow2(UintBits)

\* a + b on unsigned integers: the sum wraps
Uint64Add(a, b) == (a + b) % Modulus

\* int64(x) < 0, also int(x) < 0: the top bit of x is set
IsNegative(x) == x >= Modulus \div 2

Range(s) == {s[i] : i \in 1..Len(s)}

RECURSIVE SumLen(_)
\* the number of characters of a string given as a sequence of symbols
SumLen(s) == IF s = <<>> THEN 0 ELSE Len(Head(s)) + SumLen(Tail(s))

RECURSIVE SetToSeq(_)
\* some enumeration of a finite set (the choice is fixed, the order arbitrary)
SetToSeq(S) ==
    IF S = {} THEN <<>>
    ELSE LET x == CHOOSE y \in S : TRUE IN <<x>> \o SetToSeq(S \ {x})

-----------------------------------------------------------------------------
(* Paths: path.IsAbs and path.Clean of the Go standard library, as the      *)
(* loader and the handler call them.                                       *)

IsAbs(p) == Len(p) > 0 /\ p[1] = "/"

RECURSIVE SplitOn(_, _, _, _)
\* strings.Split(s, sep): the pieces of s between the occurrences of sep
SplitOn(s, sep, cur, acc) ==
    IF s = <<>> THEN Append(acc, cur)
    ELSE IF Head(s) = sep THEN SplitOn(Tail(s), sep, <<>>, Append(acc, cur))
    ELSE SplitOn(Tail(s), sep, Append(cur, Head(s)), acc)

Split(s, sep) == SplitOn(s, sep, <<>>, <<>>)

RECURSIVE CleanElems(_, _, _)
\* path.Clean's pass over the elements: "" and "." are dropped, ".." removes
\* the element before it, is dropped at the root and kept otherwise
CleanElems(elems, rooted, out) ==
    IF elems = <<>> THEN out
    ELSE LET e == Head(elems)
             rest == Tail(elems)
         IN IF e = <<>> \/ e = <<".">> THEN CleanElems(rest, rooted, out)
            ELSE IF e = <<".", ".">>
            THEN IF Len(out) > 0 /\ out[Len(out)] # <<".", ".">>
                 THEN CleanElems(rest, rooted, SubSeq(out, 1, Len(out) - 1))
                 ELSE IF rooted THEN CleanElems(rest, rooted, out)
                 ELSE CleanElems(rest, rooted, Append(out, e))
            ELSE CleanElems(rest, rooted, Append(out, e))

RECURSIVE Join(_, _)
Join(elems, sep) ==
    IF elems = <<>> THEN <<>>
    ELSE IF Len(elems) = 1 THEN Head(elems)
    ELSE Head(elems) \o <<sep>> \o Join(Tail(elems), sep)

Clean(p) ==
    IF p = <<>> THEN <<".">>
    ELSE LET rooted == p[1] = "/"
             out == Join(CleanElems(Split(p, "/"), rooted, <<>>), "/")
             res == IF rooted THEN <<"/">> \o out ELSE out
         IN IF res = <<>> THEN <<".">> ELSE res

-----------------------------------------------------------------------------
(* The pack format codec (the protobuf messages of packed.proto, proto3:    *)
(* a scalar field holding its zero value is not written).                  *)

NoData == [none |-> TRUE]

FileData(off, len) == [Offset |-> off, Length |-> len]

\* the proto3 wire form of a Header: one 9-byte field per non-zero value,
\* in field order
HeaderMarshal(hdr) ==
    (IF hdr.Magic # MagicZero
     THEN <<[len |-> FieldLen, src |-> <<"fixed64", 1, hdr.Magic>>]>> ELSE <<>>)
    \o (IF hdr.Version # 0
        THEN <<[len |-> FieldLen, src |-> <<"fixed64", 2, hdr.Version>>]>> ELSE <<>>)
    \o (IF hdr.DirectoryOffset # 0
        THEN <<[len |-> FieldLen, src |-> <<"fixed64", 3, hdr.DirectoryOffset>>]>>
        ELSE <<>>)
    \o (IF hdr.DirectoryLength # 0
        THEN <<[len |-> FieldLen, src |-> <<"fixed64", 4, hdr.DirectoryLength>>]>>
        ELSE <<>>)

\* the fields decoded from the extents found in the first HeaderLen bytes, a
\* later field of the same number replacing an earlier one
HeaderUnmarshal(cells) ==
    LET val(tag, zero) ==
            LET at == {i \in 1..Len(cells) : cells[i].src[2] = tag}
            IN IF at = {} THEN zero
               ELSE cells[CHOOSE i \in at : \A j \in at : j <= i].src[3]
    IN [Magic |-> val(1, MagicZero), Version |-> val(2, 0),
        DirectoryOffset |-> val(3, 0), DirectoryLength |-> val(4, 0)]

\* bytes of a base-128 varint
VarintLen(n) == IF n < 128 THEN 1 ELSE IF n < 16384 THEN 2 ELSE 3

\* wire size of a length-delimited field holding n bytes
DelimitedLen(n) == 1 + VarintLen(n) + n

FileDataLen(fd) ==
    (IF fd.Offset # 0 THEN FieldLen ELSE 0) + (IF fd.Length # 0 THEN FieldLen ELSE 0)

FileLen(f) ==
    (IF f.ContentType # <<>> THEN DelimitedLen(SumLen(f.ContentType)) ELSE 0)
    + (IF f.Etag # <<>> THEN DelimitedLen(SumLen(f.Etag)) ELSE 0)
    + (IF f.Uncompressed # NoData THEN DelimitedLen(FileDataLen(f.Uncompressed)) ELSE 0)
    + (IF f.Gzip # NoData THEN DelimitedLen(FileDataLen(f.Gzip)) ELSE 0)
    + (IF f.Brotli # NoData THEN DelimitedLen(FileDataLen(f.Brotli)) ELSE 0)

\* one entry of the map field of a Directory on the wire
MapEntry(k, f) == [key |-> k, file |-> f]

RECURSIVE EntriesLen(_)
\* the wire size of a sequence of map entries
EntriesLen(entries) ==
    IF entries = <<>> THEN 0
    ELSE DelimitedLen(DelimitedLen(SumLen(Head(entries).key))
                      + DelimitedLen(FileLen(Head(entries).file)))
         + EntriesLen(Tail(entries))

\* the entries of the map d, in some order
EntriesOf(d) ==
    LET keys == SetToSeq(DOMAIN d)
    IN [i \in 1..Len(keys) |-> MapEntry(keys[i], d[keys[i]])]

\* the blob holding a sequence of map entries
DirectoryBlob(entries) ==
    [len |-> EntriesLen(entries), src |-> <<"Directory", entries>>]

\* the wire form of a Directory: nothing for an empty map, else one blob
\* holding an entry per key
DirectoryMarshal(d) ==
    IF DOMAIN d = {} THEN <<>> ELSE <<DirectoryBlob(EntriesOf(d))>>

-----------------------------------------------------------------------------
(* The builder's inputs: the files on disk and the FilesToPack it is given. *)

\* the input files: their size, and the sizes the gzip (zopfli) and brotli
\* encoders produce for them; the encoders are functions of the content
InputFiles ==
    [empty |-> [size |-> 0,     gzip |-> 20,    brotli |-> 1],
     tiny  |-> [size |-> 127,   gzip |-> 1,     brotli |-> 90],
     small |-> [size |-> 300,   gzip |-> 172,   brotli |-> 173],
     page  |-> [size |-> 4096,  gzip |-> 4136,  brotli |-> 3968],
     big   |-> [size |-> 20000, gzip |-> 19844, brotli |-> 19845]]

Filenames == DOMAIN InputFiles

\* the URL paths given as keys: canonical ones, a relative one, one with a
\* trailing slash, one with a ".." element
PathKeys ==
    { <<"/", "a">>, <<"/", "d", "/", "i">>, <<"a">>, <<"/", "a", "/">>,
      <<"/", "d", "/", ".", ".", "/", "a">> }

FileToPack(fn, ct, dc, dg, db) ==
    [Filename |-> fn, ContentType |-> ct, DisableCompression |-> dc,
     DisableGzip |-> dg, DisableBrotli |-> db]

FileToPackSet ==
    { FileToPack("small", <<"text/css">>, FALSE, FALSE, FALSE),
      FileToPack("big", <<>>, FALSE, FALSE, FALSE),
      FileToPack("page", <<>>, FALSE, FALSE, TRUE),
      FileToPack("tiny", <<"text/css">>, FALSE, TRUE, FALSE),
      FileToPack("big", <<"text/css">>, TRUE, FALSE, FALSE),
      FileToPack("empty", <<>>, FALSE, FALSE, FALSE) }

\* every FilesToPack map of at most MaxFiles entries
FilesToPackSet ==
    UNION { [ks -> FileToPackSet] :
            ks \in {k \in SUBSET PathKeys : Cardinality(k) <= MaxFiles} }

\* the system calls and library calls of a build that can fail
PackOneFailures ==
    { "none", "pad", "padseek", "open", "stat", "mmap", "pos", "copy",
      "gzpad", "gzpadseek", "gzpos", "gztmp", "gzcompress", "gzflush", "gzstat",
      "gzcopy", "brpad", "brpadseek", "brpos", "brtmp", "brexec", "brstat",
      "brcopy" }

PackNewFailures == { "none", "new", "placeholder" }

PackFinishFailures ==
    { "none", "marshal", "pad", "padseek", "pos", "write", "writeat", "commit" }

-----------------------------------------------------------------------------
(* packWriter: the output file with its position, and the sticky error.    *)
(* Each operation takes the packWriter record and says whether the call    *)
(* it makes fails; it gives the packWriter afterwards.                     *)

NoFile == [none |-> TRUE]

NewPackWriter == [err |-> FALSE, pos |-> 0, size |-> 0, ext |-> {}]

RECURSIVE Place(_, _)
\* the extents of the pieces of buf laid one after another from offset at
Place(buf, at) ==
    IF buf = <<>> THEN {}
    ELSE {[off |-> at, len |-> Head(buf).len, src |-> Head(buf).src]}
         \cup Place(Tail(buf), at + Head(buf).len)

RECURSIVE BufLen(_)
BufLen(buf) == IF buf = <<>> THEN 0 ELSE Head(buf).len + BufLen(Tail(buf))

\* the file content after buf was written at offset at: what the new bytes
\* cover is replaced
WriteExtents(ext, buf, at) ==
    {e \in ext : ~(e.off >= at /\ e.off + e.len <= at + BufLen(buf))}
    \cup {e \in Place(buf, at) : e.len > 0}

\* pw.f.Write(buf) at the file position
FileWrite(w, buf) ==
    [w EXCEPT !.ext = WriteExtents(w.ext, buf, w.pos),
              !.pos = w.pos + BufLen(buf),
              !.size = Max(w.size, w.pos + BufLen(buf))]

\* outputFile.WriteAt(buf, at): the file position is not moved
FileWriteAt(w, buf, at) ==
    [w EXCEPT !.ext = WriteExtents(w.ext, buf, at),
              !.size = Max(w.size, at + BufLen(buf))]

\* Write as it would be without the sticky error: a failure is returned to the
\* caller and not recorded in pw.err
WriteForgetsError(w, buf, fails) ==
    IF w.err THEN [pw |-> w, err |-> TRUE]
    ELSE IF fails THEN [pw |-> w, err |-> TRUE]
    ELSE [pw |-> FileWrite(w, buf), err |-> FALSE]

\* packWriter.Write: [pw, err]; it refuses once pw.err is set and records a
\* failure in pw.err
Write(w, buf, fails) ==
    IF w.err THEN [pw |-> w, err |-> TRUE]
    ELSE IF fails THEN [pw |-> [w EXCEPT !.err = TRUE], err |-> TRUE]
    ELSE [pw |-> FileWrite(w, buf), err |-> FALSE]

\* packWriter.Pos: [pw, pos]; a failing Seek is recorded and gives 0
Pos(w, fails) ==
    IF fails THEN [pw |-> [w EXCEPT !.err = TRUE], pos |-> 0]
    ELSE [pw |-> w, pos |-> w.pos]

\* a Pad that leaves the position where it is
PadNothing(w, fails, seekFails) ==
    IF w.err THEN w
    ELSE IF fails THEN [w EXCEPT !.err = TRUE]
    ELSE w

\* packWriter.Pad: seek to the next multiple of 4096
Pad(w, fails, seekFails) ==
    IF w.err THEN w
    ELSE IF fails THEN [w EXCEPT !.err = TRUE]
    ELSE IF w.pos % PageSize = 0 THEN w
    ELSE IF seekFails THEN [w EXCEPT !.err = TRUE]
    ELSE [w EXCEPT !.pos = w.pos + (PageSize - (w.pos % PageSize))]

\* packWriter.CopyFrom: [pw, n]; sendfile appends the len bytes of src
CopyFrom(w, src, len, fails) ==
    IF w.err THEN [pw |-> w, n |-> 0]
    ELSE IF len > 0 /\ fails THEN [pw |-> [w EXCEPT !.err = TRUE], n |-> 0]
    ELSE [pw |-> FileWrite(w, <<[len |-> len, src |-> src]>>), n |-> len]

\* a savings gate with the test of the absolute saving only
SavingAbsoluteOnly(sz, uncompressedSize) ==
    ~(sz + minCompressionSaving > uncompressedSize)

\* a savings gate with the test of the relative saving only
SavingFractionOnly(sz, uncompressedSize) ==
    ~(sz + ShiftRight(uncompressedSize, minCompressionFraction) > uncompressedSize)

\* the savings gate of CopyIfSaving
Saving(sz, uncompressedSize) ==
    /\ ~(sz + minCompressionSaving > uncompressedSize)
    /\ ~(sz + ShiftRight(uncompressedSize, minCompressionFraction) > uncompressedSize)

\* packWriter.CopyIfSaving: [pw, n, err]
CopyIfSaving(w, src, sz, uncompressedSize, statFails, copyFails) ==
    IF w.err THEN [pw |-> w, n |-> 0, err |-> TRUE]
    ELSE IF statFails THEN [pw |-> [w EXCEPT !.err = TRUE], n |-> 0, err |-> TRUE]
    ELSE IF ~Saving(sz, uncompressedSize) THEN [pw |-> w, n |-> 0, err |-> FALSE]
    ELSE LET c == CopyFrom(w, src, sz, copyFails)
         IN [pw |-> c.pw, n |-> c.n, err |-> c.pw.err]

-----------------------------------------------------------------------------
(* packOne: one file into the pack.  fail names the call that fails, if    *)
(* any; the result is [pw, info, err, hit], hit saying that the failing    *)
(* call was in fact made.                                                  *)

EmptyFile ==
    [ContentType |-> <<>>, Etag |-> <<>>, Uncompressed |-> NoData,
     Gzip |-> NoData, Brotli |-> NoData]

\* etag: "1--" and the hexadecimal SHA-384 of the content, in double quotes
etag(fn) == << "\"1--sha384(" \o fn \o ")\"" >>

\* http.DetectContentType never gives the empty string
DetectContentType(fn) == << "application/octet-stream" >>

\* whether Pad makes a call that fails
PadHit(w, fails, seekFails) ==
    ~w.err /\ (fails \/ (w.pos % PageSize # 0 /\ seekFails))

\* packOneGzip: [pw, n, err, hit]
packOneGzip(w, fn, uncompressedSize, fail) ==
    IF fail \in {"gztmp", "gzcompress", "gzflush"}
    THEN [pw |-> w, n |-> 0, err |-> TRUE, hit |-> TRUE]
    ELSE LET sz == InputFiles[fn].gzip
             c == CopyIfSaving(w, <<fn, "gzip">>, sz, uncompressedSize,
                               fail = "gzstat", fail = "gzcopy")
         IN [pw |-> c.pw, n |-> c.n, err |-> c.err,
             hit |-> ~w.err /\ (fail = "gzstat"
                                \/ (fail = "gzcopy" /\ Saving(sz, uncompressedSize)))]

\* packOneBrotli: [pw, n, err, hit]
packOneBrotli(w, fn, uncompressedSize, fail) ==
    IF fail \in {"brtmp", "brexec"}
    THEN [pw |-> w, n |-> 0, err |-> TRUE, hit |-> TRUE]
    ELSE LET sz == InputFiles[fn].brotli
             c == CopyIfSaving(w, <<fn, "brotli">>, sz, uncompressedSize,
                               fail = "brstat", fail = "brcopy")
         IN [pw |-> c.pw, n |-> c.n, err |-> c.err,
             hit |-> ~w.err /\ (fail = "brstat"
                                \/ (fail = "brcopy" /\ Saving(sz, uncompressedSize)))]

\* the brotli part of packOne, from the state after the gzip part
packOneBrotliPart(w, info, f, brotliPath, fail, hit) ==
    IF ~(brotliPath # "" /\ ~f.DisableBrotli)
    THEN [pw |-> w, info |-> info, err |-> FALSE, hit |-> hit]
    ELSE LET w1 == Pad(w, fail = "brpad", fail = "brpadseek")
             h1 == hit \/ PadHit(w, fail = "brpad", fail = "brpadseek")
         IN IF w1.err THEN [pw |-> w1, info |-> info, err |-> TRUE, hit |-> h1]
            ELSE LET p == Pos(w1, fail = "brpos")
                     b == packOneBrotli(p.pw, f.Filename,
                                        info.Uncompressed.Length, fail)
                     h2 == h1 \/ fail = "brpos" \/ b.hit
                 IN IF b.err THEN [pw |-> b.pw, info |-> info, err |-> TRUE, hit |-> h2]
                    ELSE [pw |-> b.pw,
                          info |-> IF b.n > 0
                                   THEN [info EXCEPT !.Brotli = FileData(p.pos, b.n)]
                                   ELSE info,
                          err |-> FALSE, hit |-> h2]

\* the gzip part of packOne, and then the brotli part
packOneGzipPart(w, info, f, brotliPath, fail, hit) ==
    IF f.DisableGzip THEN packOneBrotliPart(w, info, f, brotliPath, fail, hit)
    ELSE LET w1 == Pad(w, fail = "gzpad", fail = "gzpadseek")
             h1 == hit \/ PadHit(w, fail = "gzpad", fail = "gzpadseek")
         IN IF w1.err THEN [pw |-> w1, info |-> info, err |-> TRUE, hit |-> h1]
            ELSE LET p == Pos(w1, fail = "gzpos")
                     g == packOneGzip(p.pw, f.Filename,
                                      info.Uncompressed.Length, fail)
                     h2 == h1 \/ fail = "gzpos" \/ g.hit
                 IN IF g.err THEN [pw |-> g.pw, info |-> info, err |-> TRUE, hit |-> h2]
                    ELSE packOneBrotliPart(
                             g.pw,
                             IF g.n > 0
                             THEN [info EXCEPT !.Gzip = FileData(p.pos, g.n)]
                             ELSE info,
                             f, brotliPath, fail, h2)

packOne(w, f, brotliPath, fail) ==
    LET fn == f.Filename
        size == InputFiles[fn].size
        w1 == Pad(w, fail = "pad", fail = "padseek")
        h1 == PadHit(w, fail = "pad", fail = "padseek")
    IN IF w1.err THEN [pw |-> w1, info |-> EmptyFile, err |-> TRUE, hit |-> h1]
       ELSE IF fail \in {"open", "stat", "mmap"} \/ size = 0
       \* unix.Mmap refuses a length of 0 with EINVAL
       THEN [pw |-> w1, info |-> EmptyFile, err |-> TRUE, hit |-> TRUE]
       ELSE LET info1 == [EmptyFile EXCEPT
                              !.Etag = etag(fn),
                              !.ContentType = IF f.ContentType = <<>>
                                              THEN DetectContentType(fn)
                                              ELSE f.ContentType]
                p == Pos(w1, fail = "pos")
                c == CopyFrom(p.pw, <<fn, "uncompressed">>, size, fail = "copy")
                h2 == fail \in {"pos", "copy"}
            IN IF c.pw.err THEN [pw |-> c.pw, info |-> info1, err |-> TRUE, hit |-> h2]
               ELSE LET info2 == [info1 EXCEPT !.Uncompressed = FileData(p.pos, size)]
                    IN IF f.DisableCompression
                       THEN [pw |-> c.pw, info |-> info2, err |-> FALSE, hit |-> h2]
                       ELSE packOneGzipPart(c.pw, info2, f, brotliPath, fail, h2)

-----------------------------------------------------------------------------
(* Pack, in three steps: the temporary file and the placeholder header;    *)
(* one iteration of the loop over filesToPack; the directory, the header   *)
(* and the commit.  Each step takes the call that fails, if any.           *)

EmptyDir == [k \in {} |-> EmptyFile]

\* failed: the calls that were made and failed; dirWritten, hdrWritten: the
\* directory blob and the final header were written; dirPos, dirLen: the file
\* position the directory blob was written at, and its length
NoHistory ==
    [failed |-> {}, dirWritten |-> FALSE, hdrWritten |-> FALSE,
     dirPos |-> 0, dirLen |-> 0]

Hit(hit, fail) == IF hit THEN {fail} ELSE {}

NotLoaded == [none |-> TRUE]

\* no call of CopyIfSaving on its own was made
NotCopied == [none |-> TRUE]

PlaceholderHeader ==
    [Magic |-> Magic, Version |-> VersionInitial,
     DirectoryOffset |-> 1, DirectoryLength |-> 1]

PackNew(fail) ==
    /\ ppc = "new"
    /\ IF fail = "new"
       THEN \* writefile.New failed: there is no temporary file
            /\ ppc' = "done"
            /\ ret' = "err"
            /\ hist' = [hist EXCEPT !.failed = {fail}]
            /\ UNCHANGED <<pw, tmpfile, dir, todo>>
       ELSE /\ tmpfile' = "open"
            /\ pw' = Write(NewPackWriter, HeaderMarshal(PlaceholderHeader),
                           fail = "placeholder").pw
            /\ hist' = [hist EXCEPT !.failed = Hit(fail = "placeholder", fail)]
            /\ dir' = EmptyDir
            /\ todo' = DOMAIN filesToPack
            /\ ppc' = "files"
            /\ ret' = ret
    /\ UNCHANGED <<filesToPack, BrotliPath, target, loaded>>
    /\ UNCHANGED serveVars
    /\ UNCHANGED newVars

PackFile(path, fail) ==
    /\ ppc = "files"
    /\ path \in todo
    /\ LET r == packOne(pw, filesToPack[path], BrotliPath, fail)
       IN /\ hist' = [hist EXCEPT !.failed = hist.failed \cup Hit(r.hit, fail)]
          /\ IF r.err
             THEN /\ ppc' = "done"
                  /\ ret' = "err"
                  /\ tmpfile' = "removed"
                  /\ pw' = NewPackWriter
                  /\ UNCHANGED <<dir, todo>>
             ELSE /\ dir' = [k \in DOMAIN dir \cup {path} |->
                                IF k = path THEN r.info ELSE dir[k]]
                  /\ todo' = todo \ {path}
                  /\ pw' = r.pw
                  /\ UNCHANGED <<ppc, ret, tmpfile>>
    /\ UNCHANGED <<filesToPack, BrotliPath, target, loaded>>
    /\ UNCHANGED serveVars
    /\ UNCHANGED newVars

\* the end of Pack: [pw, err, hit, dirWritten, hdrWritten, dirPos, dirLen]
packFinish(w, d, fail) ==
    LET m == DirectoryMarshal(d)
        w1 == Pad(w, fail = "pad", fail = "padseek")
        h1 == PadHit(w, fail = "pad", fail = "padseek")
        p == Pos(w1, fail = "pos")
        hdr == [Magic |-> Magic, Version |-> VersionInitial,
                DirectoryOffset |-> p.pos, DirectoryLength |-> BufLen(m)]
        wr == Write(p.pw, m, fail = "write")
        h2 == h1 \/ fail = "pos" \/ (~p.pw.err /\ fail = "write")
    IN IF fail = "marshal"
       THEN [pw |-> w, err |-> TRUE, hit |-> TRUE,
             dirWritten |-> FALSE, hdrWritten |-> FALSE, dirPos |-> 0, dirLen |-> 0]
       ELSE IF wr.err
       THEN [pw |-> wr.pw, err |-> TRUE, hit |-> h2,
             dirWritten |-> FALSE, hdrWritten |-> FALSE, dirPos |-> 0, dirLen |-> 0]
       ELSE IF fail = "writeat"
       THEN [pw |-> wr.pw, err |-> TRUE, hit |-> TRUE,
             dirWritten |-> TRUE, hdrWritten |-> FALSE,
             dirPos |-> p.pw.pos, dirLen |-> BufLen(m)]
       ELSE [pw |-> FileWriteAt(wr.pw, HeaderMarshal(hdr), 0),
             err |-> fail = "commit", hit |-> h2 \/ fail = "commit",
             dirWritten |-> TRUE, hdrWritten |-> TRUE,
             dirPos |-> p.pw.pos, dirLen |-> BufLen(m)]

PackFinish(fail) ==
    /\ ppc = "files"
    /\ todo = {}
    /\ LET r == packFinish(pw, dir, fail)
       IN /\ hist' = [failed |-> hist.failed \cup Hit(r.hit, fail),
                      dirWritten |-> r.dirWritten, hdrWritten |-> r.hdrWritten,
                      dirPos |-> r.dirPos, dirLen |-> r.dirLen]
          /\ ppc' = "done"
          /\ IF r.err
             THEN /\ ret' = "err"
                  /\ tmpfile' = "removed"
                  /\ pw' = NewPackWriter
                  /\ target' = target
             ELSE \* writefile.Commit renames the temporary file onto the target
                  /\ ret' = "ok"
                  /\ tmpfile' = "renamed"
                  /\ pw' = r.pw
                  /\ target' = [size |-> r.pw.size, ext |-> r.pw.ext]
    /\ UNCHANGED <<filesToPack, BrotliPath, dir, todo, loaded>>
    /\ UNCHANGED serveVars
    /\ UNCHANGED newVars

-----------------------------------------------------------------------------
(* The loader: packed.Load on a file [size, ext].                          *)

\* what Load returns: the header, the directory, and of the error its
\* Cause, its Path and le, its Magic and Version
LoadResult(cause, path, hdr, d, le) ==
    [cause |-> cause, path |-> path, hdr |-> hdr, dir |-> d, le |-> le]

\* a LoadError's Magic and Version, when unset
NoMagicVersion == [Magic |-> MagicZero, Version |-> 0]

\* a LoadError's Magic and Version, copied from a header
MagicVersion(hdr) == [Magic |-> hdr.Magic, Version |-> hdr.Version]

NoHeader == [none |-> TRUE]

\* the extents lying in the first HeaderLen bytes, in offset order
HeaderCells(f) ==
    LET at == {e \in f.ext : e.off < HeaderLen}
        nth(i) == CHOOSE e \in at : Cardinality({x \in at : x.off < e.off}) = i - 1
    IN [i \in 1..Cardinality(at) |-> nth(i)]

\* whether the first HeaderLen bytes are header fields end to end
HeaderDecodes(f) ==
    LET cells == HeaderCells(f)
    IN /\ Len(cells) * FieldLen = HeaderLen
       /\ \A i \in 1..Len(cells) :
              /\ cells[i].off = (i - 1) * FieldLen
              /\ cells[i].len = FieldLen
              /\ cells[i].src[1] = "fixed64"

\* loadHeader testing the version before the magic number
loadHeaderVersionFirst(f) ==
    IF f.size < HeaderLen THEN [cause |-> "IOError", hdr |-> NoHeader]
    ELSE IF ~HeaderDecodes(f) THEN [cause |-> "HeaderUnmarshalError", hdr |-> NoHeader]
    ELSE LET hdr == HeaderUnmarshal(HeaderCells(f))
         IN IF hdr.Version < VersionInitial
            THEN [cause |-> "VersionTooOld", hdr |-> hdr]
            ELSE IF hdr.Version > VersionInitial
            THEN [cause |-> "VersionTooNew", hdr |-> hdr]
            ELSE IF hdr.Magic # Magic THEN [cause |-> "MagicMismatch", hdr |-> hdr]
            ELSE [cause |-> "none", hdr |-> hdr]

\* loadHeader: [cause, hdr]; with a cause, hdr is what the error carries
loadHeader(f) ==
    IF f.size < HeaderLen THEN [cause |-> "IOError", hdr |-> NoHeader]
    ELSE IF ~HeaderDecodes(f) THEN [cause |-> "HeaderUnmarshalError", hdr |-> NoHeader]
    ELSE LET hdr == HeaderUnmarshal(HeaderCells(f))
         IN IF hdr.Magic # Magic THEN [cause |-> "MagicMismatch", hdr |-> hdr]
            ELSE IF hdr.Version < VersionInitial
            THEN [cause |-> "VersionTooOld", hdr |-> hdr]
            ELSE IF hdr.Version > VersionInitial
            THEN [cause |-> "VersionTooNew", hdr |-> hdr]
            ELSE [cause |-> "none", hdr |-> hdr]

\* checkOffset: whether it finds data outside the file
checkOffset(data, fileSize) ==
    data # NoData /\ Uint64Add(data.Offset, data.Length) > fileSize

\* the body of checkDirectory's loop for one entry: the cause it returns
checkEntry(filename, info, fileSize) ==
    IF ~IsAbs(filename) \/ Clean(filename) # filename THEN "InvalidPath"
    ELSE IF info.Uncompressed = NoData THEN "MissingUncompressed"
    ELSE IF \/ checkOffset(info.Uncompressed, fileSize)
            \/ checkOffset(info.Gzip, fileSize)
            \/ checkOffset(info.Brotli, fileSize)
    THEN "BadOffsetError"
    ELSE "none"

\* checkDirectory: the [cause, path] it may return; the loop ranges over a
\* map, in an order Go leaves open, and returns at the first entry in error
checkDirectory(d, fileSize) ==
    LET bad == {k \in DOMAIN d : checkEntry(k, d[k], fileSize) # "none"}
    IN IF bad = {} THEN {[cause |-> "none", path |-> <<>>]}
       ELSE {[cause |-> checkEntry(k, d[k], fileSize),
              path |-> IF checkEntry(k, d[k], fileSize) = "BadOffsetError"
                       THEN <<>> ELSE k] : k \in bad}

RECURSIVE MapOf(_, _)
\* the map the decoder builds from the entries: an entry whose key the map
\* has already replaces the earlier one
MapOf(entries, d) ==
    IF entries = <<>> THEN d
    ELSE LET e == Head(entries)
         IN MapOf(Tail(entries),
                  [k \in DOMAIN d \cup {e.key} |->
                      IF k = e.key THEN e.file ELSE d[k]])

\* Directory.Unmarshal of the length bytes at offset off: [ok, dir]
DirectoryUnmarshal(f, off, length) ==
    IF length = 0 THEN [ok |-> TRUE, dir |-> EmptyDir]
    ELSE LET at == {e \in f.ext : e.off = off /\ e.len = length
                                  /\ e.src[1] = "Directory"}
         IN IF at = {} THEN [ok |-> FALSE, dir |-> EmptyDir]
            ELSE [ok |-> TRUE,
                  dir |-> MapOf((CHOOSE e \in at : TRUE).src[2], EmptyDir)]

\* loadDirectory, f.Stat succeeding: the [cause, path, dir] it may give.  When
\* the sum of offset and length has wrapped, make([]byte, length) panics
\* for a length int takes as negative and may panic for another, and
\* ReadAt refuses the offset int64 takes as negative.
loadDirectory(f, hdr) ==
    IF Uint64Add(hdr.DirectoryOffset, hdr.DirectoryLength) > f.size
    THEN {[cause |-> "BadOffsetError", path |-> <<>>, dir |-> EmptyDir]}
    ELSE IF IsNegative(hdr.DirectoryLength)
    THEN {[cause |-> "panic", path |-> <<>>, dir |-> EmptyDir]}
    ELSE IF hdr.DirectoryOffset + hdr.DirectoryLength > f.size
    THEN {[cause |-> c, path |-> <<>>, dir |-> EmptyDir] :
              c \in {"panic", "IOError"}}
    ELSE LET u == DirectoryUnmarshal(f, hdr.DirectoryOffset,
                                     hdr.DirectoryLength)
         IN IF ~u.ok
            THEN {[cause |-> "DirectoryUnmarshalError", path |-> <<>>,
                   dir |-> EmptyDir]}
            ELSE {[cause |-> c.cause, path |-> c.path, dir |-> u.dir] :
                      c \in checkDirectory(u.dir, f.size)}

\* Load: the results it may give for the file f
Load(f) ==
    LET h == loadHeader(f)
    IN IF h.cause # "none"
       THEN {LoadResult(h.cause, <<>>, NoHeader, EmptyDir,
                        IF h.hdr = NoHeader THEN NoMagicVersion
                        ELSE MagicVersion(h.hdr))}
       ELSE {LoadResult(r.cause, r.path, h.hdr, r.dir,
                        IF r.cause \in {"none", "panic"} THEN NoMagicVersion
                        ELSE MagicVersion(h.hdr)) :
                 r \in loadDirectory(f, h.hdr)}

\* the committed pack is loaded
LoadTarget ==
    /\ ppc = "done"
    /\ ret = "ok"
    /\ \E r \in Load(target) : loaded' = r
    /\ ppc' = "loaded"
    /\ UNCHANGED <<filesToPack, BrotliPath, todo, pw, dir, tmpfile, target, ret, hist>>
    /\ UNCHANGED serveVars
    /\ UNCHANGED newVars

-----------------------------------------------------------------------------
(* The handler: strings of the Go standard library it relies on.           *)

SpaceChars == {" ", "\t"}

RECURSIVE TrimLeft(_)
TrimLeft(s) ==
    IF s # <<>> /\ Head(s) \in SpaceChars THEN TrimLeft(Tail(s)) ELSE s

RECURSIVE TrimRight(_)
TrimRight(s) ==
    IF s # <<>> /\ s[Len(s)] \in SpaceChars
    THEN TrimRight(SubSeq(s, 1, Len(s) - 1))
    ELSE s

\* strings.TrimSpace
TrimSpace(s) == TrimRight(TrimLeft(s))

\* strings.HasPrefix
HasPrefix(s, prefix) ==
    Len(s) >= Len(prefix) /\ SubSeq(s, 1, Len(prefix)) = prefix

\* strings.IndexByte, counting from 1; 0 when c does not occur (Go's -1)
IndexByte(s, c) ==
    IF \E i \in 1..Len(s) : s[i] = c
    THEN CHOOSE i \in 1..Len(s) : s[i] = c /\ \A j \in 1..(i - 1) : s[j] # c
    ELSE 0

DigitChars == <<"0", "1", "2", "3", "4", "5", "6", "7", "8", "9">>

IsDigit(c) == \E i \in 1..Len(DigitChars) : DigitChars[i] = c

DigitVal(c) == (CHOOSE i \in 1..Len(DigitChars) : DigitChars[i] = c) - 1

RECURSIVE DigitsVal(_, _)
DigitsVal(s, acc) ==
    IF s = <<>> THEN acc
    ELSE DigitsVal(Tail(s), acc * Len(DigitChars) + DigitVal(Head(s)))

\* strconv.ParseUint(s, 10, 64): [ok, v]; the empty string, a sign and any
\* character that is not a decimal digit are errors
ParseUint(s) ==
    IF s # <<>> /\ \A i \in 1..Len(s) : IsDigit(s[i])
    THEN [ok |-> TRUE, v |-> DigitsVal(s, 0)]
    ELSE [ok |-> FALSE, v |-> 0]

RECURSIVE FormatUint(_)
\* strconv.FormatUint(n, 10), also fmt's %d
FormatUint(n) ==
    IF n < Len(DigitChars) THEN <<DigitChars[n + 1]>>
    ELSE Append(FormatUint(n \div Len(DigitChars)),
                DigitChars[(n % Len(DigitChars)) + 1])

\* the HTTP dates of the model and the instants they denote
HTTPDates ==
    [d \in {"Thu, 05 Nov 2026 10:00:01 GMT", "Thu, 05 Nov 2026 10:00:02 GMT",
            "Thu, 05 Nov 2026 10:00:03 GMT"} |->
        IF d = "Thu, 05 Nov 2026 10:00:01 GMT" THEN 1
        ELSE IF d = "Thu, 05 Nov 2026 10:00:02 GMT" THEN 2 ELSE 3]

\* http.ParseTime: [ok, t]
ParseTime(s) ==
    IF Len(s) = 1 /\ s[1] \in DOMAIN HTTPDates
    THEN [ok |-> TRUE, t |-> HTTPDates[s[1]]]
    ELSE [ok |-> FALSE, t |-> 0]

\* http.Header: a map from canonical header name to value
NoHeaders == [k \in {} |-> <<>>]

\* Header.Set
HSet(m, k, v) == [x \in DOMAIN m \cup {k} |-> IF x = k THEN v ELSE m[x]]

\* Header.Del
HDel(m, k) == [x \in DOMAIN m \ {k} |-> m[x]]

\* Header.Get: "" when the header is absent
HGet(m, k) == IF k \in DOMAIN m THEN m[k] ELSE <<>>

-----------------------------------------------------------------------------
(* The handler: its inputs.                                                *)

encodingGzip == <<"gzip">>

encodingBrotli == <<"br">>

PackedFile(tag, ct, u, g, b) ==
    [ContentType |-> ct, Etag |-> tag, Uncompressed |-> u, Gzip |-> g,
     Brotli |-> b]

\* the size of the pack file the handler has opened and mapped
PackedSize == 12 * PageSize

\* the directory packed.Load gave to New: entries with every combination of
\* variants, one with an ETag of its own and one whose ETag is the empty
\* string (the loader does not look at ETags)
PackedDir ==
    (<<"/", "a">> :> PackedFile(<<"\"1--aa\"">>, <<"text/html">>,
                        FileData(PageSize, 4), FileData(2 * PageSize, 3),
                        FileData(3 * PageSize, 2)))
    @@ (<<"/", "g">> :> PackedFile(<<"\"1--aa\"">>, <<"text/css">>,
                        FileData(4 * PageSize, 4), FileData(5 * PageSize, 3),
                        NoData))
    @@ (<<"/", "b">> :> PackedFile(<<"\"1--aa\"">>, <<"text/css">>,
                        FileData(6 * PageSize, 4), NoData,
                        FileData(7 * PageSize, 2)))
    @@ (<<"/", "u">> :> PackedFile(<<"\"1--uu\"">>, <<"image/png">>,
                        FileData(8 * PageSize, 4), NoData, NoData))
    @@ (<<"/", "n">> :> PackedFile(<<>>, <<"text/plain">>,
                        FileData(9 * PageSize, 4), FileData(10 * PageSize, 3),
                        NoData))

\* an optional request header: absent, or present with the value v
Absent == <<>>

Present(v) == <<v>>

\* the request header map made of four optional headers
RequestHeader(ae, inm, ims, rng) ==
    LET opt == ("Accept-Encoding" :> ae) @@ ("If-None-Match" :> inm)
               @@ ("If-Modified-Since" :> ims) @@ ("Range" :> rng)
    IN [k \in {x \in DOMAIN opt : opt[x] # Absent} |-> opt[k][1]]

Request(m, p, hdr) == [Method |-> m, Path |-> p, Header |-> hdr]

AcceptEncodings ==
    {Absent, Present(<<"br">>), Present(<<"gzip">>),
     Present(<<"gzip", ",", " ", "br">>),
     Present(<<"gzip", ";", "q", "=", "1">>)}

IfNoneMatches ==
    {Absent, Present(<<>>), Present(<<"\"1--aa\"">>),
     Present(<<"\"1--zz\"", ",", " ", "\"1--aa\"">>),
     Present(<<"\"1--uu\"">>)}

IfModifiedSinces ==
    {Absent, Present(<<"yesterday">>)}
    \cup {Present(<<d>>) : d \in DOMAIN HTTPDates}

BytesEq == <<"b", "y", "t", "e", "s", "=">>

Ranges ==
    {Absent,
     Present(BytesEq \o <<"0", "-", "0">>),
     Present(BytesEq \o <<"1", "-", "2">>),
     Present(BytesEq \o <<"0", "1", "-", "0", "2">>),
     Present(BytesEq \o <<"3", "-", "3">>),
     Present(BytesEq \o <<"0", "-", "3">>),
     Present(BytesEq \o <<"0", "-", "1", "0">>),
     Present(BytesEq \o <<"4", "-", "5">>),
     Present(BytesEq \o <<"2", "-", "1">>),
     Present(BytesEq \o <<"1", "-">>),
     Present(BytesEq \o <<"-", "2">>),
     Present(BytesEq \o <<"0", "-", "1", ",", "2", "-", "3">>),
     Present(BytesEq \o <<"x", "-", "1">>),
     Present(BytesEq \o <<"1", "2">>),
     Present(<<"i", "t", "e", "m", "s", "=", "0", "-", "1">>)}

ServedPaths ==
    {<<"/", "a">>, <<"/", "g">>, <<"/", "b">>, <<"/", "u">>, <<"/", "n">>,
     <<"/", "a", "/">>}

MissingPaths == {<<"/", "x">>, <<"/", "a", "/", "x">>}

\* the requests of the model: every Accept-Encoding with every Range for
\* every path, every combination of the conditional headers with some
\* Accept-Encoding and Range, and requests that are refused
Requests ==
    {Request(m, p, RequestHeader(ae, Absent, Absent, rng)) :
        m \in {"GET", "HEAD"}, p \in ServedPaths, ae \in AcceptEncodings,
        rng \in Ranges}
    \cup
    {Request(m, p, RequestHeader(ae, inm, ims, rng)) :
        m \in {"GET", "HEAD"},
        p \in {<<"/", "a">>, <<"/", "u">>, <<"/", "n">>},
        ae \in {Absent, Present(<<"br">>)},
        inm \in IfNoneMatches, ims \in IfModifiedSinces,
        rng \in {Absent, Present(BytesEq \o <<"1", "-", "2">>)}}
    \cup
    {Request(m, p, RequestHeader(Absent, inm, Absent, Absent)) :
        m \in {"GET", "HEAD"}, p \in MissingPaths,
        inm \in {Absent, Present(<<"\"1--aa\"">>)}}
    \cup
    {Request(m, p, RequestHeader(Absent, inm, Absent, Absent)) :
        m \in {"POST", "DELETE"}, p \in {<<"/", "a">>, <<"/", "x">>},
        inm \in {Absent, Present(<<"\"1--aa\"">>)}}

\* the keys and values SetHeader is called with
HeaderKeys == {"X-Frame-Options", "X-Content-Type-Options", "Cache-Control"}

HeaderValues == {<<>>, <<"custom">>}

-----------------------------------------------------------------------------
(* The handler: ServeHTTP and the functions it calls.                      *)

NoReq == [none |-> TRUE]

NoXfer == [none |-> TRUE]

NoHead == [none |-> TRUE]

\* sendfile(2) can send a maximum of 1GiB
MaxSendfile == 1073741824

\* the elements of a comma-separated header value, each as TrimSpace leaves it
Elements(v) == {TrimSpace(e) : e \in Range(Split(v, ","))}

\* acceptedEncodings without the TrimSpace
acceptedEncodingsUntrimmed(rq) ==
    LET encs == Range(Split(HGet(rq.Header, "Accept-Encoding"), ","))
    IN [gzip |-> encodingGzip \in encs, brotli |-> encodingBrotli \in encs]

acceptedEncodings(rq) ==
    LET encs == Elements(HGet(rq.Header, "Accept-Encoding"))
    IN [gzip |-> encodingGzip \in encs, brotli |-> encodingBrotli \in encs]

\* clientHasCachedVersion without the TrimSpace
clientHasCachedVersionUntrimmed(tag, startTime, rq) ==
    IF tag \in Range(Split(HGet(rq.Header, "If-None-Match"), ",")) THEN TRUE
    ELSE IF "If-None-Match" \in DOMAIN rq.Header THEN FALSE
    ELSE LET cachedTime == ParseTime(HGet(rq.Header, "If-Modified-Since"))
         IN cachedTime.ok /\ cachedTime.t > startTime

clientHasCachedVersion(tag, startTime, rq) ==
    IF tag \in Elements(HGet(rq.Header, "If-None-Match")) THEN TRUE
    ELSE IF "If-None-Match" \in DOMAIN rq.Header THEN FALSE
    ELSE LET cachedTime == ParseTime(HGet(rq.Header, "If-Modified-Since"))
         IN cachedTime.ok /\ cachedTime.t > startTime

FileRange(offset, length, isPartial) ==
    [offset |-> offset, length |-> length, isPartial |-> isPartial]

\* the two bounds of "bytes=from-to": [ok, from, to]
RangeBounds(r) ==
    IF ~HasPrefix(r, BytesEq) THEN [ok |-> FALSE, from |-> 0, to |-> 0]
    ELSE LET rest == SubSeq(r, Len(BytesEq) + 1, Len(r))
             pos == IndexByte(rest, "-")
         IN IF pos = 0 THEN [ok |-> FALSE, from |-> 0, to |-> 0]
            ELSE LET from == ParseUint(SubSeq(rest, 1, pos - 1))
                     to == ParseUint(SubSeq(rest, pos + 1, Len(rest)))
                 IN [ok |-> from.ok /\ to.ok, from |-> from.v, to |-> to.v]

\* getFileRange with length = to - from
getFileRangeShort(data, rq) ==
    LET b == RangeBounds(HGet(rq.Header, "Range"))
    IN IF ~b.ok \/ b.from > b.to \/ b.from >= data.Length \/ b.to >= data.Length
       THEN FileRange(0, data.Length, FALSE)
       ELSE FileRange(b.from, b.to - b.from, TRUE)

\* getFileRange without the check of to against the length
getFileRangeUnbounded(data, rq) ==
    LET b == RangeBounds(HGet(rq.Header, "Range"))
    IN IF ~b.ok \/ b.from > b.to \/ b.from >= data.Length
       THEN FileRange(0, data.Length, FALSE)
       ELSE FileRange(b.from, b.to - b.from + 1, TRUE)

getFileRange(data, rq) ==
    LET b == RangeBounds(HGet(rq.Header, "Range"))
    IN IF ~b.ok \/ b.from > b.to \/ b.from >= data.Length \/ b.to >= data.Length
       THEN FileRange(0, data.Length, FALSE)
       ELSE FileRange(b.from, b.to - b.from + 1, TRUE)

\* what ServeHTTP leaves in the ResponseWriter and hands to sendfile:
\* [header, status, text, xfer]
Response(hdr, status, text, x) ==
    [header |-> hdr, status |-> status, text |-> text, xfer |-> x]

\* http.Error (http.NotFound calls it): it deletes Content-Length, sets
\* Content-Type and X-Content-Type-Options, writes the status and the text
Error(hdr, text, code) ==
    Response(HSet(HSet(HDel(hdr, "Content-Length"),
                       "Content-Type", <<"text/plain; charset=utf-8">>),
                  "X-Content-Type-Options", <<"nosniff">>),
             code, text, NoXfer)

\* fmt.Sprintf("bytes %d-%d/%d", offset, offset+length-1, data.Length)
ContentRange(r, data) ==
    <<"b", "y", "t", "e", "s", " ">> \o FormatUint(r.offset) \o <<"-">>
    \o FormatUint(r.offset + r.length - 1) \o <<"/">>
    \o FormatUint(data.Length)

\* ServeHTTP after the conditional check: compression, range, final header
ServeFile(hdr, info, rq) ==
    LET enc == acceptedEncodings(rq)
        useBrotli == enc.brotli /\ info.Brotli # NoData
        useGzip == ~useBrotli /\ enc.gzip /\ info.Gzip # NoData
        data == IF useBrotli THEN info.Brotli
                ELSE IF useGzip THEN info.Gzip ELSE info.Uncompressed
        hdr1 == IF useBrotli THEN HSet(hdr, "Content-Encoding", encodingBrotli)
                ELSE IF useGzip THEN HSet(hdr, "Content-Encoding", encodingGzip)
                ELSE hdr
        r == getFileRange(data, rq)
        hdr2 == IF r.isPartial
                THEN HSet(hdr1, "Content-Range", ContentRange(r, data))
                ELSE hdr1
        hdr3 == HSet(hdr2, "Content-Length", FormatUint(r.length))
    IN Response(hdr3, IF r.isPartial THEN 206 ELSE 200, "",
                IF rq.Method = "HEAD" THEN NoXfer
                ELSE [data |-> data, offset |-> r.offset, length |-> r.length])

\* the whole of ServeHTTP up to the call of sendfile
ServeHTTPResponse(hd, rq) ==
    LET hdr0 == [k \in DOMAIN hd.headers |-> hd.headers[k]]
    IN IF rq.Method \notin {"HEAD", "GET"}
       THEN Error(hdr0, "method not allowed\n", 405)
       ELSE IF Clean(rq.Path) \notin DOMAIN hd.dir
       THEN Error(hdr0, "404 page not found\n", 404)
       ELSE LET info == hd.dir[Clean(rq.Path)]
                hdr1 == HSet(HSet(HSet(HSet(hdr0,
                            "Vary", <<"Accept-Encoding">>),
                            "Etag", info.Etag),
                            "Content-Type", info.ContentType),
                            "Accept-Ranges", <<"bytes">>)
            IN IF clientHasCachedVersion(info.Etag, hd.startTime, rq)
               THEN Response(hdr1, 304, "", NoXfer)
               ELSE ServeFile(hdr1, info, rq)

-----------------------------------------------------------------------------
(* The handler: its actions.                                               *)

\* the largest number of times the wait for the socket fails in one sendfile
MaxWaitFail == 2

\* a ResponseWriter nothing was written to
NewResponseWriter ==
    [kind |-> "unasserted", header |-> NoHeaders, status |-> 0,
     hijacked |-> FALSE]

\* no connection hijacked; waits counts the failed waits for the socket
NoSendfile ==
    [off |-> 0, remain |-> 0, breakErr |-> FALSE, conn |-> "server",
     waits |-> 0]

NothingSent == [head |-> NoHead, body |-> <<>>]

\* the head the server writes for the ResponseWriter
HeadOf(writer) == [status |-> writer.status, header |-> writer.header]

\* a run of n bytes of src, from its byte from on
Chunk(src, from, n) == [src |-> src, from |-> from, n |-> n]

\* body, followed by the n bytes of the mapped pack from position from
AppendBytes(body, from, n) ==
    IF n = 0 THEN body
    ELSE IF /\ body # <<>>
            /\ body[Len(body)].src = "mapped"
            /\ body[Len(body)].from + body[Len(body)].n = from
    THEN [body EXCEPT ![Len(body)].n = @ + n]
    ELSE Append(body, Chunk("mapped", from, n))

\* New, after the load: the two standard security headers
NewHandler(d) ==
    [dir |-> d,
     headers |-> HSet(HSet(NoHeaders, "X-Frame-Options", <<"sameorigin">>),
                      "X-Content-Type-Options", <<"nosniff">>),
     startTime |-> 2]

SetHeader(key, value) ==
    /\ hpc = "idle"
    /\ nset < MaxSetHeader
    /\ nset' = nset + 1
    /\ handler' = [handler EXCEPT !.headers = IF value = <<>>
                                               THEN HDel(@, key)
                                               ELSE HSet(@, key, value)]
    /\ lastset' = HSet(lastset, key, value)
    /\ UNCHANGED <<hpc, req, rw, xfer, sf, wire>>
    /\ UNCHANGED packVars
    /\ UNCHANGED <<held, newret, parked, indexed, extraHeaders, copied>>

\* ServeHTTP setting the response's headers in the handler's own map
ServeHTTPSharedHeaders(rq) ==
    /\ hpc = "idle"
    /\ LET resp == ServeHTTPResponse(handler, rq)
       IN /\ rw' = [rw EXCEPT !.header = resp.header, !.status = resp.status]
          /\ handler' = [handler EXCEPT !.headers = resp.header]
          /\ xfer' = resp.xfer
          /\ req' = rq
          /\ hpc' = IF resp.xfer = NoXfer THEN "done" ELSE "sendfile"
          /\ wire' = IF resp.xfer = NoXfer
                     THEN [head |-> [status |-> resp.status,
                                     header |-> resp.header],
                           body |-> <<>>]
                     ELSE wire
    /\ UNCHANGED <<nset, sf>>
    /\ UNCHANGED packVars
    /\ UNCHANGED newVars

\* ServeHTTP up to its return or its call of sendfile; a response without a
\* call of sendfile is sent by the server when ServeHTTP returns
ServeHTTP(rq) ==
    /\ hpc = "idle"
    /\ LET resp == ServeHTTPResponse(handler, rq)
       IN /\ rw' = [rw EXCEPT !.header = resp.header, !.status = resp.status]
          /\ xfer' = resp.xfer
          /\ req' = rq
          /\ IF resp.xfer = NoXfer
             THEN /\ hpc' = "done"
                  /\ wire' = [head |-> [status |-> resp.status,
                                        header |-> resp.header],
                              body |-> IF resp.text = "" THEN <<>>
                                       ELSE <<Chunk(resp.text, 0, Len(resp.text))>>]
             ELSE /\ hpc' = "sendfile"
                  /\ wire' = wire
    /\ UNCHANGED <<handler, nset, sf>>
    /\ UNCHANGED packVars
    /\ UNCHANGED newVars

\* the header map after the values of each key of add were set in it
SetAll(hdr, add) ==
    [k \in DOMAIN hdr \cup DOMAIN add |->
         IF k \in DOMAIN add THEN add[k] ELSE hdr[k]]

\* addHeaders.ServeHTTP: the operator's values are appended to the
\* ResponseWriter's header map, which is empty, and the pack handler's
\* ServeHTTP is called with that ResponseWriter: it sets h.headers and its
\* own headers in the same map
addHeadersServeHTTP(rq) ==
    /\ hpc = "idle"
    /\ LET w1 == [rw EXCEPT !.header = SetAll(@, extraHeaders)]
           h1 == [handler EXCEPT !.headers = SetAll(w1.header, @)]
           resp == ServeHTTPResponse(h1, rq)
       IN /\ rw' = [w1 EXCEPT !.header = resp.header, !.status = resp.status]
          /\ xfer' = resp.xfer
          /\ req' = rq
          /\ IF resp.xfer = NoXfer
             THEN /\ hpc' = "done"
                  /\ wire' = [head |-> [status |-> resp.status,
                                        header |-> resp.header],
                              body |-> IF resp.text = "" THEN <<>>
                                       ELSE <<Chunk(resp.text, 0, Len(resp.text))>>]
             ELSE /\ hpc' = "sendfile"
                  /\ wire' = wire
    /\ UNCHANGED <<handler, nset, sf>>
    /\ UNCHANGED packVars
    /\ UNCHANGED newVars

\* copyfile: the body after w.Write(h.mapped[offset : offset+length]); Write
\* on a hijacked ResponseWriter returns http.ErrHijacked and sends nothing
copyfile(writer, body, data, offset, length) ==
    IF writer.hijacked THEN body
    ELSE AppendBytes(body, offset + data.Offset, length)

WriterKinds == {"notHijacker", "hijackError", "notTCP", "tcp"}

SendfileOutcomes == {"all", "partial", "error", "waitFailed", "eagainWaitFailed"}

\* sendfile up to the check of the connection's type.  Hijack writes the
\* buffered head to the connection and detaches the ResponseWriter.
sendfileHijack(kind) ==
    /\ hpc = "sendfile"
    /\ req' = NoReq
    /\ IF kind \in {"notHijacker", "hijackError"}
       THEN /\ rw' = [rw EXCEPT !.kind = kind]
            /\ wire' = [head |-> HeadOf(rw),
                        body |-> copyfile(rw, wire.body, xfer.data,
                                          xfer.offset, xfer.length)]
            /\ hpc' = "done"
            /\ sf' = sf
       ELSE /\ rw' = [rw EXCEPT !.kind = kind, !.hijacked = TRUE]
            /\ sf' = [sf EXCEPT !.conn = "open"]
            /\ IF kind = "notTCP"
               THEN /\ wire' = [head |-> HeadOf(rw),
                                body |-> copyfile(rw', wire.body, xfer.data,
                                                  xfer.offset, xfer.length)]
                    /\ hpc' = "done"
               ELSE /\ wire' = [wire EXCEPT !.head = HeadOf(rw)]
                    /\ hpc' = "flush"
    /\ UNCHANGED <<handler, nset, xfer>>
    /\ UNCHANGED packVars
    /\ UNCHANGED newVars

\* tcp.SyscallConn and buf.Flush; on an error sendfile returns and the
\* deferred tcp.Close runs
sendfileFlush(fail) ==
    /\ hpc = "flush"
    /\ IF fail \in {"syscallconn", "flush"}
       THEN /\ sf' = [sf EXCEPT !.conn = "closed"]
            /\ hpc' = "done"
       ELSE /\ sf' = [sf EXCEPT !.off = xfer.data.Offset + xfer.offset,
                                !.remain = xfer.length]
            /\ hpc' = "loop"
    /\ UNCHANGED <<handler, nset, req, rw, xfer, wire>>
    /\ UNCHANGED packVars
    /\ UNCHANGED newVars

\* an iteration of sendfile's loop that sends from the cursor and leaves
\* the cursor where it was
sendfileLoopKeepsOffset(outcome) ==
    /\ hpc = "loop"
    /\ ~sf.breakErr /\ sf.remain > 0
    /\ LET amt == IF sf.remain > MaxSendfile THEN MaxSendfile ELSE sf.remain
           written == CASE outcome = "all" -> amt
                        [] outcome = "partial" -> 1
                        [] outcome = "waitFailed" -> 0
                        [] OTHER -> 0 - 1
       IN /\ outcome = "partial" => amt > 1
          /\ outcome # "waitFailed" => sf.waits = 0
          /\ sf.waits < MaxWaitFail
          /\ sf' = [sf EXCEPT
                       !.remain = @ - written,
                       !.breakErr = (outcome = "error"),
                       !.waits = IF outcome \in {"waitFailed", "eagainWaitFailed"}
                                 THEN @ + 1 ELSE @]
          /\ wire' = [wire EXCEPT
                         !.body = IF written > 0
                                  THEN AppendBytes(@, sf.off, written)
                                  ELSE @]
    /\ UNCHANGED <<handler, hpc, nset, req, rw, xfer>>
    /\ UNCHANGED packVars
    /\ UNCHANGED newVars

\* one iteration of sendfile's loop.  unix.Sendfile gives the number of
\* bytes written, or -1 and an error; on EAGAIN rawsock.Write waits for the
\* socket and calls again.  When the wait fails (the connection is closing,
\* its deadline has passed) rawsock.Write returns, and from then on returns
\* without calling the function.  remain -= uint64(written) adds 1 when
\* written is -1.
sendfileLoop(outcome) ==
    /\ hpc = "loop"
    /\ ~sf.breakErr /\ sf.remain > 0
    /\ LET amt == IF sf.remain > MaxSendfile THEN MaxSendfile ELSE sf.remain
           written == CASE outcome = "all" -> amt
                        [] outcome = "partial" -> 1
                        [] outcome = "waitFailed" -> 0
                        [] OTHER -> 0 - 1
       IN /\ outcome = "partial" => amt > 1
          /\ outcome # "waitFailed" => sf.waits = 0
          /\ sf.waits < MaxWaitFail
          /\ sf' = [sf EXCEPT
                       !.off = IF written > 0 THEN @ + written ELSE @,
                       !.remain = @ - written,
                       !.breakErr = (outcome = "error"),
                       !.waits = IF outcome \in {"waitFailed", "eagainWaitFailed"}
                                 THEN @ + 1 ELSE @]
          /\ wire' = [wire EXCEPT
                         !.body = IF written > 0
                                  THEN AppendBytes(@, sf.off, written)
                                  ELSE @]
    /\ UNCHANGED <<handler, hpc, nset, req, rw, xfer>>
    /\ UNCHANGED packVars
    /\ UNCHANGED newVars

\* the loop is left; the deferred tcp.Close runs
sendfileReturn ==
    /\ hpc = "loop"
    /\ sf.breakErr \/ sf.remain = 0
    /\ sf' = [sf EXCEPT !.conn = "closed"]
    /\ hpc' = "done"
    /\ UNCHANGED <<handler, nset, req, rw, xfer, wire>>
    /\ UNCHANGED packVars
    /\ UNCHANGED newVars

\* ServeHTTP has returned; the server, or nobody, has the connection
ServeHTTPReturn ==
    /\ hpc = "done"
    /\ hpc' = "idle"
    /\ req' = NoReq
    /\ rw' = NewResponseWriter
    /\ xfer' = NoXfer
    /\ sf' = NoSendfile
    /\ wire' = NothingSent
    /\ UNCHANGED <<handler, nset>>
    /\ UNCHANGED packVars
    /\ UNCHANGED newVars

-----------------------------------------------------------------------------
(* The specification of a build followed by a load.                        *)

\* the state of a goroutine of the server that has no request
NoRequest ==
    [hpc |-> "idle", req |-> NoReq, rw |-> NewResponseWriter, xfer |-> NoXfer,
     sf |-> NoSendfile, wire |-> NothingSent]

\* the state of the running goroutine's request
Running ==
    [hpc |-> hpc, req |-> req, rw |-> rw, xfer |-> xfer, sf |-> sf,
     wire |-> wire]

\* the scheduler runs the other goroutine: every variable of a request is
\* local to its goroutine
Switch ==
    /\ parked' = Running
    /\ hpc' = parked.hpc
    /\ req' = parked.req
    /\ rw' = parked.rw
    /\ xfer' = parked.xfer
    /\ sf' = parked.sf
    /\ wire' = parked.wire
    /\ UNCHANGED <<handler, nset, held, newret, indexed, lastset, extraHeaders,
                   copied>>
    /\ UNCHANGED packVars

\* the requests two goroutines serve at the same time
ConcurrentRequests ==
    {Request("GET", <<"/", "a">>,
             RequestHeader(Present(<<"br">>), Absent, Absent, Absent)),
     Request("GET", <<"/", "g">>,
             RequestHeader(Present(<<"gzip">>), Absent, Absent,
                           Present(BytesEq \o <<"1", "-", "2">>))),
     Request("HEAD", <<"/", "u">>,
             RequestHeader(Absent, Present(<<"\"1--uu\"">>), Absent, Absent)),
     Request("POST", <<"/", "a">>,
             RequestHeader(Absent, Absent, Absent, Absent))}

\* the handler New has not returned
NoHandler == [none |-> TRUE]

\* nothing of the pack file is open or mapped
NothingHeld == [fd |-> "none", mapped |-> "none"]

NewFailures == {"none", "open", "stat", "mmap"}

\* New(packfile) for the file Pack was to write: os.Open, f.Stat, unix.Mmap
\* (which refuses a length of 0), packed.Load, the Handler and its two
\* standard headers.  r is what Load returns.
NewResult(f, fail, r) ==
    IF fail = "open" \/ f = NoFile
    THEN [held |-> NothingHeld, ret |-> "err", dir |-> EmptyDir]
    ELSE IF fail = "stat"
    THEN [held |-> [fd |-> "open", mapped |-> "none"], ret |-> "err",
          dir |-> EmptyDir]
    ELSE IF fail = "mmap" \/ f.size = 0
    THEN [held |-> [fd |-> "closed", mapped |-> "none"], ret |-> "err",
          dir |-> EmptyDir]
    ELSE IF r.cause # "none"
    THEN [held |-> [fd |-> "closed", mapped |-> "unmapped"], ret |-> "err",
          dir |-> EmptyDir]
    ELSE [held |-> [fd |-> "open", mapped |-> "mapped"], ret |-> "handler",
          dir |-> r.dir]

New(fail) ==
    /\ ppc = "done"
    /\ \E r \in (IF target = NoFile THEN {NotLoaded} ELSE Load(target)) :
           LET n == NewResult(target, fail, r)
           IN /\ held' = n.held
              /\ newret' = n.ret
              /\ handler' = IF n.ret = "handler" THEN NewHandler(n.dir)
                            ELSE handler
    /\ ppc' = "opened"
    /\ UNCHANGED <<filesToPack, BrotliPath, todo, pw, dir, tmpfile, target, ret,
                   hist, loaded>>
    /\ UNCHANGED <<hpc, nset, req, rw, xfer, sf, wire, parked, indexed, lastset,
                   extraHeaders, copied>>

\* Pack has not been called
InitBuilder ==
    /\ ppc = "new"
    /\ todo = {}
    /\ pw = NewPackWriter
    /\ dir = EmptyDir
    /\ tmpfile = "none"
    /\ target = NoFile
    /\ ret = "none"
    /\ hist = NoHistory
    /\ loaded = NotLoaded

\* New has returned a handler for the pack, no request has arrived
InitHandler ==
    /\ handler = NewHandler(PackedDir)
    /\ hpc = "idle"
    /\ nset = 0
    /\ req = NoReq
    /\ rw = NewResponseWriter
    /\ xfer = NoXfer
    /\ sf = NoSendfile
    /\ wire = NothingSent
    /\ held = [fd |-> "open", mapped |-> "mapped"]
    /\ newret = "handler"
    /\ parked = NoRequest
    /\ indexed = <<>>
    /\ lastset = NoHeaders
    /\ extraHeaders = NoHeaders
    /\ copied = NotCopied

\* New has not been called
InitNew ==
    /\ handler = NoHandler
    /\ hpc = "idle"
    /\ nset = 0
    /\ req = NoReq
    /\ rw = NewResponseWriter
    /\ xfer = NoXfer
    /\ sf = NoSendfile
    /\ wire = NothingSent
    /\ held = NothingHeld
    /\ newret = "none"
    /\ parked = NoRequest
    /\ indexed = <<>>
    /\ lastset = NoHeaders
    /\ extraHeaders = NoHeaders
    /\ copied = NotCopied

InitPack ==
    /\ filesToPack \in FilesToPackSet
    /\ BrotliPath \in {"brotli", ""}
    /\ InitBuilder
    /\ InitNew

NextPack ==
    \/ \E fail \in PackNewFailures : PackNew(fail)
    \/ \E path \in PathKeys, fail \in PackOneFailures : PackFile(path, fail)
    \/ \E fail \in PackFinishFailures : PackFinish(fail)
    \/ LoadTarget
    \/ \E fail \in NewFailures : New(fail)

SpecPack == InitPack /\ [][NextPack]_vars

-----------------------------------------------------------------------------
(* The specification of the loader given a pack file from anywhere.        *)

\* a magic number that is not Magic
OtherMagic == "0xb6e61a4b415ed33c"

\* the size of the pack files
CraftedSize == 3 * PageSize

\* the File messages of the directories: sound ones, one ending at the end
\* of the file, ones without uncompressed data, ones with a FileData that
\* runs past the end of the file, one whose offset + length wraps
CraftedFiles ==
    {PackedFile(<<"\"1--aa\"">>, <<"text/html">>, u, g, NoData) :
        u \in {NoData, FileData(2 * PageSize, 10),
               FileData(CraftedSize, 0),
               FileData(2 * PageSize, 2 * PageSize),
               FileData(Modulus - 1, 2)},
        g \in {NoData, FileData(2 * PageSize, CraftedSize)}}

CraftedKeys == {<<"/", "a">>, <<"a">>, <<"/", "a", "/">>, <<"/", "b">>}

\* the sequences of at most n map entries
RECURSIVE EntrySeqs(_)
EntrySeqs(n) ==
    IF n = 0 THEN {<<>>}
    ELSE LET shorter == EntrySeqs(n - 1)
         IN shorter \cup {Append(es, MapEntry(k, f)) :
                              es \in shorter, k \in CraftedKeys,
                              f \in CraftedFiles}

\* a header of four fields on the wire
HeaderFields(magic, version, doff, dlen) ==
    <<[len |-> FieldLen, src |-> <<"fixed64", 1, magic>>],
      [len |-> FieldLen, src |-> <<"fixed64", 2, version>>],
      [len |-> FieldLen, src |-> <<"fixed64", 3, doff>>],
      [len |-> FieldLen, src |-> <<"fixed64", 4, dlen>>]>>

\* a pack file: the header fields, the directory entries at PageSize
CraftedPack(fields, entries, size) ==
    [size |-> size,
     ext |-> {e \in Place(fields, 0) \cup Place(<<DirectoryBlob(entries)>>, PageSize) :
                 e.len > 0 /\ e.off + e.len <= size}]

\* a sound directory
SoundEntries ==
    <<MapEntry(<<"/", "a">>,
               PackedFile(<<"\"1--aa\"">>, <<"text/html">>,
                          FileData(2 * PageSize, 10), NoData, NoData))>>

\* the pack files given to the loader: every directory under a sound
\* header, and under every header a sound directory
CraftedPacks ==
    {CraftedPack(HeaderFields(Magic, VersionInitial, PageSize, EntriesLen(es)),
                 es, CraftedSize) : es \in EntrySeqs(MaxEntries)}
    \cup
    {CraftedPack(HeaderFields(magic, version, d[1], d[2]), SoundEntries, size) :
        magic \in {Magic, OtherMagic}, version \in {0, 1, 2},
        d \in {<<PageSize, EntriesLen(SoundEntries)>>,
               <<PageSize, CraftedSize>>,
               <<CraftedSize, 0>>,
               <<Modulus - 1, 2>>,
               <<2, Modulus - 1>>},
        size \in {CraftedSize, HeaderLen - 1}}
    \cup
    {CraftedPack(<<[len |-> HeaderLen, src |-> <<"text">>]>>, SoundEntries,
                 CraftedSize)}

\* packed.Load of a pack file found on disk
LoadFile ==
    /\ ppc = "found"
    /\ \E r \in Load(target) : loaded' = r
    /\ ppc' = "loaded"
    /\ UNCHANGED <<filesToPack, BrotliPath, todo, pw, dir, tmpfile, target, ret, hist>>
    /\ UNCHANGED serveVars
    /\ UNCHANGED newVars

InitLoad ==
    /\ filesToPack = EmptyDir
    /\ BrotliPath = ""
    /\ ppc = "found"
    /\ todo = {}
    /\ pw = NewPackWriter
    /\ dir = EmptyDir
    /\ tmpfile = "none"
    /\ target \in CraftedPacks
    /\ ret = "none"
    /\ hist = NoHistory
    /\ loaded = NotLoaded
    /\ InitNew

NextLoad == LoadFile

SpecLoad == InitLoad /\ [][NextLoad]_vars

-----------------------------------------------------------------------------
(* The specification of a handler serving requests one after the other.    *)

InitServe ==
    /\ filesToPack = EmptyDir
    /\ BrotliPath = ""
    /\ InitBuilder
    /\ InitHandler

NextServe ==
    \/ \E key \in HeaderKeys, value \in HeaderValues : SetHeader(key, value)
    \/ \E rq \in Requests : ServeHTTP(rq)
    \/ \E kind \in WriterKinds : sendfileHijack(kind)
    \/ \E fail \in {"none", "syscallconn", "flush"} : sendfileFlush(fail)
    \/ \E outcome \in SendfileOutcomes : sendfileLoop(outcome)
    \/ sendfileReturn
    \/ ServeHTTPReturn

SpecServe == InitServe /\ [][NextServe]_vars

\* the handler's goroutine keeps running: an iteration of sendfile's loop
\* that can be made is made, and the loop is left when its condition fails
SpecServeLive ==
    /\ SpecServe
    /\ WF_vars(\E outcome \in SendfileOutcomes : sendfileLoop(outcome))
    /\ WF_vars(sendfileReturn)

-----------------------------------------------------------------------------
(* The specification of a handler serving two requests at the same time,   *)
(* each in its goroutine; SetHeader is called while no request is served.  *)

NextConcurrent ==
    \/ /\ parked.hpc = "idle"
       /\ \E key \in HeaderKeys, value \in HeaderValues : SetHeader(key, value)
    \/ \E rq \in ConcurrentRequests : ServeHTTP(rq)
    \/ \E kind \in WriterKinds : sendfileHijack(kind)
    \/ \E fail \in {"none", "syscallconn", "flush"} : sendfileFlush(fail)
    \/ \E outcome \in SendfileOutcomes : sendfileLoop(outcome)
    \/ sendfileReturn
    \/ ServeHTTPReturn
    \/ Switch

SpecConcurrent == InitServe /\ [][NextConcurrent]_vars

-----------------------------------------------------------------------------
(* The specification of one call of packWriter.CopyIfSaving, for a         *)
(* temporary file of c bytes against an uncompressed size of u bytes.      *)

\* uncompressed sizes: below, at and above 128, and where u >> 7 is below,
\* at and above 128
GateSizes == {0, 1, 127, 128, 129, 300, 4096, 16383, 16384, 16512, 20000}

\* for each of them the compressed sizes at and next to the two thresholds,
\* and the least and the greatest
GatePairs ==
    UNION { { [u |-> u, c |-> c] :
                c \in { x \in {0, 1, u, u + 1}
                              \cup { u - g - d :
                                       g \in {minCompressionSaving,
                                              ShiftRight(u, minCompressionFraction)},
                                       d \in {0 - 1, 0, 1} } : x >= 0 } } :
            u \in GateSizes }

\* the packWriter when packOne calls CopyIfSaving for the first file: the
\* header was written and Pad has moved to the page boundary
GateWriter ==
    Pad(Write(NewPackWriter, HeaderMarshal(PlaceholderHeader), FALSE).pw,
        FALSE, FALSE)

CopyIfSavingCall(c, u, fail) ==
    /\ ppc = "files"
    /\ copied = NotCopied
    /\ LET r == CopyIfSaving(pw, <<"temp", "gzip">>, c, u,
                             fail = "stat", fail = "copy")
       IN /\ pw' = r.pw
          /\ copied' = [c |-> c, u |-> u, fail |-> fail, n |-> r.n,
                        err |-> r.err, before |-> pw]
    /\ UNCHANGED <<filesToPack, BrotliPath, ppc, todo, dir, tmpfile, target, ret,
                   hist, loaded>>
    /\ UNCHANGED serveVars
    /\ UNCHANGED <<held, newret, parked, indexed, lastset, extraHeaders>>

InitCopy ==
    /\ filesToPack = EmptyDir
    /\ BrotliPath = ""
    /\ ppc = "files"
    /\ todo = {}
    /\ pw = GateWriter
    /\ dir = EmptyDir
    /\ tmpfile = "open"
    /\ target = NoFile
    /\ ret = "none"
    /\ hist = NoHistory
    /\ loaded = NotLoaded
    /\ InitNew

NextCopy ==
    \E p \in GatePairs, fail \in {"none", "stat", "copy"} :
        CopyIfSavingCall(p.c, p.u, fail)

SpecCopy == InitCopy /\ [][NextCopy]_vars

-----------------------------------------------------------------------------
(* The specification of packserver: the pack handler behind addHeaders.    *)

\* the headers an operator gives with -H and --header-file; run always
\* sets Cache-Control
ExtraHeaderValues ==
    ("X-Frame-Options" :> <<"deny">>)
    @@ ("X-Content-Type-Options" :> <<"custom">>)
    @@ ("X-Robots-Tag" :> <<"noindex">>)
    @@ ("Cache-Control" :> <<"no-store">>)

ExtraHeaderSets ==
    { [k \in ks \cup {"Cache-Control"} |-> ExtraHeaderValues[k]] :
          ks \in SUBSET DOMAIN ExtraHeaderValues }

InitPackserver ==
    /\ filesToPack = EmptyDir
    /\ BrotliPath = ""
    /\ InitBuilder
    /\ handler = NewHandler(PackedDir)
    /\ hpc = "idle"
    /\ nset = 0
    /\ req = NoReq
    /\ rw = NewResponseWriter
    /\ xfer = NoXfer
    /\ sf = NoSendfile
    /\ wire = NothingSent
    /\ held = [fd |-> "open", mapped |-> "mapped"]
    /\ newret = "handler"
    /\ parked = NoRequest
    /\ indexed = <<>>
    /\ lastset = NoHeaders
    /\ extraHeaders \in ExtraHeaderSets
    /\ copied = NotCopied

NextPackserver ==
    \/ \E rq \in Requests : addHeadersServeHTTP(rq)
    \/ \E kind \in WriterKinds : sendfileHijack(kind)
    \/ \E fail \in {"none", "syscallconn", "flush"} : sendfileFlush(fail)
    \/ \E outcome \in SendfileOutcomes : sendfileLoop(outcome)
    \/ sendfileReturn
    \/ ServeHTTPReturn

SpecPackserver == InitPackserver /\ [][NextPackserver]_vars

-----------------------------------------------------------------------------
(* SetIndex, called on a handler before it serves requests.                *)

\* the index of the last "/" of p, 0 if it has none
LastSlash(p) ==
    IF \E i \in 1..Len(p) : p[i] = "/"
    THEN CHOOSE i \in 1..Len(p) :
             p[i] = "/" /\ \A j \in (i + 1)..Len(p) : p[j] # "/"
    ELSE 0

\* filepath.Base: the last element of p, trailing slashes removed first
Base(p) ==
    IF p = <<>> THEN <<".">>
    ELSE LET stripped == IF \E i \in 1..Len(p) : p[i] # "/"
                         THEN SubSeq(p, 1, CHOOSE i \in 1..Len(p) :
                                  p[i] # "/" /\ \A j \in (i + 1)..Len(p) : p[j] = "/")
                         ELSE <<>>
             last == SubSeq(stripped, LastSlash(stripped) + 1, Len(stripped))
         IN IF last = <<>> THEN <<"/">> ELSE last

\* a Dir that does not clean: it keeps the trailing slash
DirUncleaned(p) == SubSeq(p, 1, LastSlash(p))

\* filepath.Dir: all but the last element of p, cleaned
Dir(p) == Clean(SubSeq(p, 1, LastSlash(p)))

\* the body of SetIndex's loop that overwrites a route that exists
AddRouteOverwrites(d, k, filename) ==
    IF Base(k) = filename
    THEN LET routeToAdd == Dir(k)
         IN [x \in DOMAIN d \cup {routeToAdd} |->
                 IF x = routeToAdd THEN d[k] ELSE d[x]]
    ELSE d

\* the body of SetIndex's loop for the key k of h.dir
AddRoute(d, k, filename) ==
    IF Base(k) = filename
    THEN LET routeToAdd == Dir(k)
         IN IF routeToAdd \notin DOMAIN d
            THEN [x \in DOMAIN d \cup {routeToAdd} |->
                     IF x = routeToAdd THEN d[k] ELSE d[x]]
            ELSE d
    ELSE d

\* the directories a range loop over h.dir can end with: it visits each key
\* that was in the map when it began, in any order, and a key the loop body
\* has added may be visited or skipped.  must: the keys still to visit,
\* may: the added keys not visited so far
RECURSIVE SetIndexLoop(_, _, _, _)
SetIndexLoop(d, must, may, filename) ==
    (IF must = {} THEN {d} ELSE {})
    \cup UNION { LET d1 == AddRoute(d, k, filename)
                 IN SetIndexLoop(d1, must \ {k},
                                 (may \cup (DOMAIN d1 \ DOMAIN d)) \ {k},
                                 filename) :
                 k \in must \cup may }

SetIndex(filename) ==
    /\ hpc = "idle"
    /\ newret = "handler"
    /\ Len(indexed) < MaxSetIndex
    /\ \E d \in SetIndexLoop(handler.dir, DOMAIN handler.dir, {}, filename) :
           handler' = [handler EXCEPT !.dir = d]
    /\ indexed' = Append(indexed, [filename |-> filename, before |-> handler.dir])
    /\ UNCHANGED <<hpc, nset, req, rw, xfer, sf, wire, held, newret, parked, lastset,
                   extraHeaders, copied>>
    /\ UNCHANGED packVars

\* the names given to SetIndex
IndexNames == {<<"i">>, <<"j">>, <<"x">>}

\* the paths of the directories SetIndex is called on: canonical absolute
\* paths, as Load accepts them
IndexKeys ==
    << <<"/", "i">>, <<"/", "d", "/", "i">>, <<"/", "d">>,
       <<"/", "d", "/", "j">>, <<"/", "i", "/", "i">>, <<"/", "a">> >>

\* the entry of path IndexKeys[n]: each path has a File of its own
IndexEntry(n) ==
    PackedFile(<<"\"1--aa\"">>, <<"text/html">>, FileData(n * PageSize, 4),
               NoData, NoData)

\* the directories of at most MaxRoutes of these paths
IndexDirs ==
    { [k \in {IndexKeys[n] : n \in ns} |->
           IndexEntry(CHOOSE n \in ns : IndexKeys[n] = k)] :
      ns \in {x \in SUBSET (1..Len(IndexKeys)) : Cardinality(x) <= MaxRoutes} }

\* New has returned a handler for a pack with one of these directories
InitIndex ==
    /\ filesToPack = EmptyDir
    /\ BrotliPath = ""
    /\ InitBuilder
    /\ \E d \in IndexDirs : handler = NewHandler(d)
    /\ hpc = "idle"
    /\ nset = 0
    /\ req = NoReq
    /\ rw = NewResponseWriter
    /\ xfer = NoXfer
    /\ sf = NoSendfile
    /\ wire = NothingSent
    /\ held = [fd |-> "open", mapped |-> "mapped"]
    /\ newret = "handler"
    /\ parked = NoRequest
    /\ indexed = <<>>
    /\ lastset = NoHeaders
    /\ extraHeaders = NoHeaders
    /\ copied = NotCopied

NextIndex == \E filename \in IndexNames : SetIndex(filename)

SpecIndex == InitIndex /\ [][NextIndex]_vars

-----------------------------------------------------------------------------
(* Claims about the builder and the loader (checked under SpecPack).       *)

\* the uncompressed FileData of entry e holds the bytes of the input file fn
HoldsInput(f, e, fn) ==
    /\ e.Uncompressed # NoData
    /\ e.Uncompressed.Length = InputFiles[fn].size
    /\ [off |-> e.Uncompressed.Offset, len |-> e.Uncompressed.Length,
        src |-> <<fn, "uncompressed">>] \in f.ext

\* C1: whenever a build succeeded and its pack was loaded, the load succeeded
\* and gave a directory with exactly the input's paths, each with the
\* supplied content type (when non-empty) and an uncompressed FileData whose
\* byte range holds the input file's bytes.
C1_LoadOfBuildIsInput ==
    ppc = "loaded" =>
        /\ loaded.cause = "none"
        /\ DOMAIN loaded.dir = DOMAIN filesToPack
        /\ \A p \in DOMAIN filesToPack :
               /\ filesToPack[p].ContentType # <<>>
                      => loaded.dir[p].ContentType = filesToPack[p].ContentType
               /\ HoldsInput(target, loaded.dir[p], filesToPack[p].Filename)

\* C2: when a call of the build failed, Pack returns an error, the rename
\* never happens and the temporary file (if one was created) is removed; the
\* rename happens only after the directory blob and the final header were
\* written, no call having failed.
C2_FailedBuildNeverCommits ==
    /\ hist.failed # {} => tmpfile # "renamed" /\ target = NoFile /\ ret # "ok"
    /\ (hist.failed # {} /\ ppc \in {"done", "loaded"})
           => ret = "err" /\ tmpfile \in {"none", "removed"}
    /\ tmpfile = "renamed" =>
           hist.dirWritten /\ hist.hdrWritten /\ hist.failed = {}

\* C2's case: the placeholder header could not be written, with files to
\* pack, and Pack has returned
C2_Witness ==
    /\ ppc = "done"
    /\ "placeholder" \in hist.failed
    /\ filesToPack # EmptyDir
    /\ ret = "err"
    /\ tmpfile = "removed"

\* C3: in every committed pack the first 36 bytes decode to a header with
\* magic = sentinel, version = 1, directory_offset and directory_length the
\* position and the length of the directory blob written, all four non-zero.
C3_CommittedHeader ==
    ret = "ok" =>
        /\ target.size >= HeaderLen
        /\ HeaderDecodes(target)
        /\ LET hdr == HeaderUnmarshal(HeaderCells(target))
           IN /\ hdr.Magic = Magic
              /\ hdr.Version = VersionInitial
              /\ hdr.DirectoryOffset = hist.dirPos
              /\ hdr.DirectoryLength = hist.dirLen
              /\ hdr.DirectoryOffset # 0
              /\ hdr.DirectoryLength # 0

-----------------------------------------------------------------------------
(* Claims about the handler (checked under SpecServe).  ServeHTTP has      *)
(* answered the request req when req # NoReq: rw holds the head it wrote    *)
(* and xfer what it handed to sendfile.                                    *)

\* the request is a GET or HEAD for a path of the directory
ForEntry == req # NoReq /\ req.Method \in {"GET", "HEAD"}
                /\ Clean(req.Path) \in DOMAIN handler.dir

\* the entry the request is for
Entry == handler.dir[Clean(req.Path)]

\* the response is full or partial
FullOrPartial == ForEntry /\ rw.status \in {200, 206}

\* the encoding of the variant to serve: brotli if listed and present,
\* otherwise gzip if listed and present, otherwise none
Preferred(info, rq) ==
    LET listed == Elements(HGet(rq.Header, "Accept-Encoding"))
    IN IF <<"br">> \in listed /\ info.Brotli # NoData THEN <<"br">>
       ELSE IF <<"gzip">> \in listed /\ info.Gzip # NoData THEN <<"gzip">>
       ELSE <<>>

Variant(info, encoding) ==
    IF encoding = <<"br">> THEN info.Brotli
    ELSE IF encoding = <<"gzip">> THEN info.Gzip
    ELSE info.Uncompressed

\* the variant to serve for the request
Selected == Variant(Entry, Preferred(Entry, req))

ValidRange ==
    /\ "Range" \in DOMAIN req.Header
    /\ LET b == RangeBounds(req.Header["Range"])
       IN b.ok /\ b.from <= b.to /\ b.to < Selected.Length

\* C5: a full or partial response to a request with a Range bytes=A-B,
\* A <= B < L, is 206 with Content-Length B-A+1 and Content-Range
\* "bytes A-B/L", and a GET hands to sendfile the pack bytes
\* [variant.offset+A, variant.offset+B]; the bytes handed to sendfile never
\* fall outside the variant.
C5_ValidRange ==
    /\ (FullOrPartial /\ ValidRange) =>
           LET b == RangeBounds(req.Header["Range"])
           IN /\ rw.status = 206
              /\ rw.header["Content-Length"] = FormatUint(b.to - b.from + 1)
              /\ HGet(rw.header, "Content-Range") =
                     <<"b", "y", "t", "e", "s", " ">> \o FormatUint(b.from)
                     \o <<"-">> \o FormatUint(b.to) \o <<"/">>
                     \o FormatUint(Selected.Length)
              /\ req.Method = "GET" =>
                     /\ xfer # NoXfer
                     /\ xfer.data = Selected
                     /\ xfer.offset = b.from
                     /\ xfer.length = b.to - b.from + 1
    /\ xfer # NoXfer => xfer.offset + xfer.length <= xfer.data.Length

\* C5's case: "bytes=01-02" was asked of a GET and sendfile is called
C5_Witness ==
    /\ FullOrPartial
    /\ req.Method = "GET"
    /\ HGet(req.Header, "Range") = BytesEq \o <<"0", "1", "-", "0", "2">>
    /\ hpc = "sendfile"
    /\ rw.status = 206
    /\ xfer.offset = 1 /\ xfer.length = 2

\* C6: a full or partial response to a request whose Range does not begin
\* with bytes=, has no -, has an empty or non-decimal bound, or has
\* from > to, from >= L or to >= L, is the response to the request without
\* Range: 200, Content-Length L, no Content-Range, the whole variant.
C6_BadRangeIsIgnored ==
    (FullOrPartial /\ "Range" \in DOMAIN req.Header /\ ~ValidRange) =>
        /\ rw.status = 200
        /\ rw.header["Content-Length"] = FormatUint(Selected.Length)
        /\ "Content-Range" \notin DOMAIN rw.header
        /\ req.Method = "GET" =>
               /\ xfer # NoXfer
               /\ xfer.data = Selected
               /\ xfer.offset = 0
               /\ xfer.length = Selected.Length

\* C6's case: a range whose end is past the variant was asked of a GET
C6_Witness ==
    /\ FullOrPartial
    /\ req.Method = "GET"
    /\ HGet(req.Header, "Range") = BytesEq \o <<"0", "-", "1", "0">>
    /\ hpc = "sendfile"
    /\ rw.status = 200

\* the request has an If-None-Match with the entry's ETag among its
\* comma-separated, trimmed elements
EtagMatches ==
    /\ "If-None-Match" \in DOMAIN req.Header
    /\ Entry.Etag \in Elements(req.Header["If-None-Match"])

\* the head carries every header configured on the handler
CarriesCustomHeaders(head) ==
    \A k \in DOMAIN handler.headers :
        k \in DOMAIN head.header /\ head.header[k] = handler.headers[k]

\* C7: a GET or HEAD whose If-None-Match lists the entry's ETag is answered
\* 304 with no body, no Content-Length and no Content-Encoding, whatever the
\* other headers; the 304 carries the configured headers; and every full or
\* partial response gives the entry's ETag, so that replaying it is such a
\* request.
C7_EtagMatchIs304 ==
    /\ (ForEntry /\ EtagMatches) =>
           /\ rw.status = 304
           /\ hpc = "done" /\ xfer = NoXfer
           /\ wire.head = HeadOf(rw) /\ wire.body = <<>>
           /\ "Content-Length" \notin DOMAIN rw.header
           /\ "Content-Encoding" \notin DOMAIN rw.header
           /\ CarriesCustomHeaders(wire.head)
    /\ FullOrPartial =>
           "Etag" \in DOMAIN rw.header /\ rw.header["Etag"] = Entry.Etag

\* C7's case: the ETag is the second element of If-None-Match, after a
\* space, in a request with a Range, a later If-Modified-Since aside
C7_Witness ==
    /\ ForEntry
    /\ req.Header = RequestHeader(Present(<<"br">>),
                        Present(<<"\"1--zz\"", ",", " ", "\"1--aa\"">>),
                        Present(<<"yesterday">>),
                        Present(BytesEq \o <<"1", "-", "2">>))
    /\ req.Path = <<"/", "a">>
    /\ rw.status = 304
    /\ handler.headers # NewHandler(PackedDir).headers

\* C8: If-Modified-Since is consulted only without If-None-Match: with an
\* If-None-Match of which no element matches the response is not 304;
\* without one it is 304 exactly when If-Modified-Since parses as a date
\* strictly later than startTime.
C8_IfModifiedSince ==
    ForEntry =>
        /\ ("If-None-Match" \in DOMAIN req.Header /\ ~EtagMatches)
               => rw.status # 304
        /\ "If-None-Match" \notin DOMAIN req.Header
               => (rw.status = 304 <=>
                      LET t == ParseTime(HGet(req.Header, "If-Modified-Since"))
                      IN t.ok /\ t.t > handler.startTime)

\* C9: a method other than GET and HEAD is answered 405 whatever the path, a
\* GET or HEAD for a path not in the directory 404, and both responses
\* carry every configured header.
C9_ErrorsCarryHeaders ==
    req # NoReq =>
        /\ req.Method \notin {"GET", "HEAD"} => rw.status = 405
        /\ (req.Method \in {"GET", "HEAD"}
                /\ Clean(req.Path) \notin DOMAIN handler.dir)
               => rw.status = 404
        /\ rw.status \in {404, 405} =>
               wire.head = HeadOf(rw) /\ CarriesCustomHeaders(wire.head)

\* C10: when sendfile has returned and the ResponseWriter was not a
\* Hijacker, or Hijack failed, or the connection was not a TCP connection,
\* the client has the head ServeHTTP wrote and the pack bytes
\* [data.Offset+offset, data.Offset+offset+length).
C10_FallbackDelivers ==
    (hpc = "done" /\ xfer # NoXfer
         /\ rw.kind \in {"notHijacker", "hijackError", "notTCP"}) =>
        /\ wire.head = HeadOf(rw)
        /\ wire.body = AppendBytes(<<>>, xfer.data.Offset + xfer.offset,
                                   xfer.length)

\* C11: when sendfile has returned after a successful Hijack, the hijacked
\* connection is closed, whatever the path: transfer completed, send error,
\* flush or SyscallConn failure, connection not a TCP connection.
C11_HijackedIsClosed ==
    (hpc = "done" /\ rw.hijacked) => sf.conn = "closed"

\* C12: when New has returned an error, the pack file is not open and not
\* mapped (closed and unmapped if it had been opened or mapped); when New
\* has returned a handler, the file is open and mapped.
C12_NewReleasesOnError ==
    /\ newret = "err" => held.fd \in {"none", "closed"}
                             /\ held.mapped \in {"none", "unmapped"}
    /\ newret = "handler" => held.fd = "open" /\ held.mapped = "mapped"

-----------------------------------------------------------------------------
(* Claims about concurrent requests (checked under SpecConcurrent).        *)

\* the head of request r and what it handed to sendfile are those ServeHTTP
\* gives for r.req on the handler as it was set up
ServedAsAlone(r) ==
    r.req # NoReq =>
        LET resp == ServeHTTPResponse(handler, r.req)
        IN /\ r.rw.status = resp.status
           /\ r.rw.header = resp.header
           /\ r.xfer = resp.xfer

\* the number of bytes of the pack request r has sent
SentBytes(r) == IF r.wire.body = <<>> THEN 0 ELSE r.wire.body[1].n

\* what request r has sent of the pack is the start of its own range, and its
\* cursor is where its own transmission has got to
OwnRange(r) ==
    r.xfer # NoXfer =>
        /\ Len(r.wire.body) <= 1
        /\ r.wire.body # <<>> =>
               /\ r.wire.body[1].src = "mapped"
               /\ r.wire.body[1].from = r.xfer.data.Offset + r.xfer.offset
               /\ r.wire.body[1].n <= r.xfer.length
        /\ r.hpc = "loop" =>
               r.sf.off = r.xfer.data.Offset + r.xfer.offset + SentBytes(r)

\* a step of a request writes neither the handler nor what New holds, and
\* leaves the other goroutine's request alone
RequestStepIsLocal ==
    /\ nset' = nset => handler' = handler
    /\ held' = held
    /\ parked' = parked \/ (parked' = Running /\ Running' = parked)

\* C13: in every interleaving of two requests on one handler, no step of a
\* request writes the handler's directory, headers, mapping or file, each
\* transmission advances its own cursor only, and the status, headers and
\* bytes of each response are those of the request served alone.
C13_ConcurrentAsAlone ==
    /\ [](/\ ServedAsAlone(Running) /\ ServedAsAlone(parked)
          /\ OwnRange(Running) /\ OwnRange(parked))
    /\ [][RequestStepIsLocal]_vars

\* C13's case: two transmissions are under way at once, each part sent
C13_Witness ==
    /\ hpc = "loop" /\ parked.hpc = "loop"
    /\ SentBytes(Running) > 0 /\ sf.remain > 0
    /\ SentBytes(parked) > 0 /\ parked.sf.remain > 0
    /\ xfer # parked.xfer
    /\ handler.headers # NewHandler(PackedDir).headers

-----------------------------------------------------------------------------
(* Claims about the loader (checked under SpecLoad).                       *)

\* the map entries the pack file holds at PageSize
TargetEntries ==
    LET blobs == {e \in target.ext : e.src[1] = "Directory"}
    IN IF blobs = {} THEN <<>> ELSE (CHOOSE e \in blobs : TRUE).src[2]

\* the pack file is whole, its header is sound and names the directory that
\* the file holds
SoundHeader ==
    /\ target.size = CraftedSize
    /\ HeaderDecodes(target)
    /\ HeaderUnmarshal(HeaderCells(target)) =
           [Magic |-> Magic, Version |-> VersionInitial,
            DirectoryOffset |-> PageSize,
            DirectoryLength |-> EntriesLen(TargetEntries)]

\* no two map entries have the same key
DistinctKeys(es) ==
    \A i, j \in 1..Len(es) : es[i].key = es[j].key => i = j

\* the bytes [Offset, Offset+Length) of a present FileData are in the file
Within(data, size) == data = NoData \/ data.Offset + data.Length <= size

\* the first of the tests that the entry fails, in the order path,
\* uncompressed data, bounds
FirstFailure(e, size) ==
    IF ~IsAbs(e.key) \/ Clean(e.key) # e.key THEN "InvalidPath"
    ELSE IF e.file.Uncompressed = NoData THEN "MissingUncompressed"
    ELSE IF ~(/\ Within(e.file.Uncompressed, size)
              /\ Within(e.file.Gzip, size)
              /\ Within(e.file.Brotli, size))
    THEN "BadOffsetError"
    ELSE "none"

\* C14: Load of a pack with a sound header returns no error only if every
\* key is absolute and canonical, every entry has uncompressed data and
\* every present FileData lies within the file; the error returned is the
\* first failure of some entry, in the order InvalidPath,
\* MissingUncompressed, BadOffsetError, the first two with the entry's path.
C14_DirectoryCheck ==
    (ppc = "loaded" /\ SoundHeader /\ DistinctKeys(TargetEntries)) =>
        LET es == TargetEntries
            bad == {i \in 1..Len(es) : FirstFailure(es[i], target.size) # "none"}
        IN /\ loaded.cause = "none" <=> bad = {}
           /\ loaded.cause # "none" =>
                  \E i \in bad :
                      /\ loaded.cause = FirstFailure(es[i], target.size)
                      /\ loaded.cause \in {"InvalidPath", "MissingUncompressed"}
                             => loaded.path = es[i].key

\* C15: Load of a pack whose directory holds two map entries with the same
\* key fails with InvalidPath.
C15_DuplicateRejected ==
    (ppc = "loaded" /\ SoundHeader /\ ~DistinctKeys(TargetEntries)) =>
        loaded.cause = "InvalidPath"

\* offset <= size and length <= size - offset
InFile(offset, length, size) == offset <= size /\ length <= size - offset

\* C16: in every pack Load accepts, the directory range and every present
\* FileData have offset <= file size and length <= file size - offset,
\* also when offset + length wraps as an unsigned sum.
C16_AcceptedRangesInFile ==
    (ppc = "loaded" /\ loaded.cause = "none") =>
        /\ InFile(loaded.hdr.DirectoryOffset, loaded.hdr.DirectoryLength,
                  target.size)
        /\ \A k \in DOMAIN loaded.dir :
               \A data \in {loaded.dir[k].Uncompressed, loaded.dir[k].Gzip,
                            loaded.dir[k].Brotli} :
                   data # NoData => InFile(data.Offset, data.Length, target.size)

\* C17: Load gives MagicMismatch whenever the header's magic is not Magic,
\* whatever the version, otherwise VersionTooOld for a version below 1 and
\* VersionTooNew for one above 1, each error with the magic and the version
\* read; it returns a header only with magic = Magic and version = 1; a
\* file of fewer than 36 bytes gives IOError.
C17_HeaderErrors ==
    ppc = "loaded" =>
        /\ target.size < HeaderLen => loaded.cause = "IOError"
        /\ (target.size >= HeaderLen /\ HeaderDecodes(target)) =>
               LET hdr == HeaderUnmarshal(HeaderCells(target))
                   expected == IF hdr.Magic # Magic THEN "MagicMismatch"
                               ELSE IF hdr.Version < 1 THEN "VersionTooOld"
                               ELSE IF hdr.Version > 1 THEN "VersionTooNew"
                               ELSE "none"
               IN expected # "none" =>
                      /\ loaded.cause = expected
                      /\ loaded.le = [Magic |-> hdr.Magic,
                                      Version |-> hdr.Version]
        /\ loaded.hdr # NoHeader =>
               loaded.hdr.Magic = Magic /\ loaded.hdr.Version = 1

\* C17's case: a header with another magic number and version 2 was read
C17_Witness ==
    /\ ppc = "loaded"
    /\ loaded.cause = "MagicMismatch"
    /\ loaded.le = [Magic |-> OtherMagic, Version |-> 2]
    /\ loaded.hdr = NoHeader

-----------------------------------------------------------------------------
(* The entries the builder has written: dir, one FileEntry for each path   *)
(* of filesToPack that packOne has packed.                                 *)

\* the gate as the specification states it, for encoded size c against u
PassesGate(c, u) == c + 128 <= u /\ c + ShiftRight(u, 7) <= u

\* the size of file k's content, and what each encoder makes of it
SizeOf(k) == InputFiles[filesToPack[k].Filename].size
GzipSizeOf(k) == InputFiles[filesToPack[k].Filename].gzip
BrotliSizeOf(k) == InputFiles[filesToPack[k].Filename].brotli

\* the builder runs the encoder on file k
GzipAttempted(k) ==
    ~filesToPack[k].DisableCompression /\ ~filesToPack[k].DisableGzip
BrotliAttempted(k) ==
    /\ ~filesToPack[k].DisableCompression
    /\ ~filesToPack[k].DisableBrotli
    /\ BrotliPath # ""

\* C18 as stated: in every FileEntry written by the builder, the gzip and the
\* brotli variant are absent if and only if the encoded size failed the gate
\* c + 128 <= u and c + (u >> 7) <= u.
C18_AbsentIffGateFailed ==
    \A k \in DOMAIN dir :
        /\ dir[k].Gzip = NoData <=> ~PassesGate(GzipSizeOf(k), SizeOf(k))
        /\ dir[k].Brotli = NoData <=> ~PassesGate(BrotliSizeOf(k), SizeOf(k))

\* C18 amended: a variant whose encoder the builder runs is absent if and
\* only if its encoded size failed the gate, and is recorded with that size
\* otherwise; a variant that is disabled (disable_compression, disable_gzip,
\* disable_brotli, no brotli encoder) is absent.
C18_AttemptedAbsentIffGateFailed ==
    \A k \in DOMAIN dir :
        /\ IF GzipAttempted(k)
           THEN /\ dir[k].Gzip = NoData <=> ~PassesGate(GzipSizeOf(k), SizeOf(k))
                /\ dir[k].Gzip # NoData => dir[k].Gzip.Length = GzipSizeOf(k)
           ELSE dir[k].Gzip = NoData
        /\ IF BrotliAttempted(k)
           THEN /\ dir[k].Brotli = NoData <=> ~PassesGate(BrotliSizeOf(k), SizeOf(k))
                /\ dir[k].Brotli # NoData => dir[k].Brotli.Length = BrotliSizeOf(k)
           ELSE dir[k].Brotli = NoData

\* C18's case: both encoders ran on a file, the gzip variant passed the gate
\* and is recorded, the brotli variant passed the absolute test only and is
\* absent
C18_Witness ==
    \E k \in DOMAIN dir :
        /\ GzipAttempted(k) /\ BrotliAttempted(k)
        /\ dir[k].Gzip # NoData
        /\ dir[k].Brotli = NoData
        /\ BrotliSizeOf(k) + 128 <= SizeOf(k)

\* the FileData the builder has recorded, each with the entry and the
\* variant it belongs to
RecordedPayloads ==
    { [key |-> k, variant |-> v, data |-> dir[k][v]] :
          k \in DOMAIN dir, v \in {"Uncompressed", "Gzip", "Brotli"} }

Payloads == {p \in RecordedPayloads : p.data # NoData}

\* two byte ranges with no byte in common
Disjoint(a, b) ==
    a.Offset + a.Length <= b.Offset \/ b.Offset + b.Length <= a.Offset

\* C19: every FileData.offset the builder records and the directory offset
\* are multiples of 4096, and no recorded payload overlaps the header,
\* another payload or the directory.
C19_AlignedAndDisjoint ==
    /\ \A p \in Payloads :
           /\ p.data.Offset % 4096 = 0
           /\ Disjoint(p.data, FileData(0, HeaderLen))
           /\ \A q \in Payloads : q # p => Disjoint(p.data, q.data)
    /\ hist.dirWritten =>
           /\ hist.dirPos % 4096 = 0
           /\ \A p \in Payloads :
                  Disjoint(p.data, FileData(hist.dirPos, hist.dirLen))
    /\ ret = "ok" =>
           LET hdr == HeaderUnmarshal(HeaderCells(target))
           IN /\ hdr.DirectoryOffset % 4096 = 0
              /\ hdr.DirectoryOffset = hist.dirPos
              /\ \A p \in Payloads :
                     Disjoint(p.data, FileData(hdr.DirectoryOffset,
                                               hdr.DirectoryLength))

\* C19's case: a committed pack of two files, a payload that ends within a
\* page followed by another, and a directory after them
C19_Witness ==
    /\ ret = "ok"
    /\ Cardinality(DOMAIN dir) = 2
    /\ \E p, q \in Payloads :
           /\ p.data.Length % 4096 # 0
           /\ q.data.Offset > p.data.Offset
           /\ hist.dirPos > q.data.Offset
    /\ hist.dirLen > 0

-----------------------------------------------------------------------------
(* Claims about SetIndex (checked under SpecIndex).                        *)

\* the last element of path k and the path without it, as the
\* specification's "basename" and "parent path"
Basename(k) ==
    LET i == CHOOSE n \in 0..Len(k) :
                 /\ n = 0 \/ k[n] = "/"
                 /\ \A m \in (n + 1)..Len(k) : k[m] # "/"
    IN SubSeq(k, i + 1, Len(k))

Parent(k) ==
    LET n == Len(k) - Len(Basename(k))
    IN IF n <= 1 THEN SubSeq(k, 1, n) ELSE SubSeq(k, 1, n - 1)

\* C20: after any sequence of SetIndex calls, every path routed before a call
\* routes to the same entry now, and for every entry k of the directory at
\* the time of a call whose basename is the call's name, the parent path of
\* k is routed: to the entry it had before the call if it had one, otherwise
\* to k's entry.
C20_SetIndexKeepsAndAdds ==
    \A c \in 1..Len(indexed) :
        LET before == indexed[c].before
            after == IF c < Len(indexed) THEN indexed[c + 1].before
                     ELSE handler.dir
        IN /\ \A k \in DOMAIN before :
                  /\ k \in DOMAIN handler.dir
                  /\ handler.dir[k] = before[k]
           /\ \A k \in DOMAIN before :
                  Basename(k) = indexed[c].filename =>
                      /\ Parent(k) \in DOMAIN after
                      /\ after[Parent(k)] = IF Parent(k) \in DOMAIN before
                                            THEN before[Parent(k)]
                                            ELSE before[k]

\* C20's case: two calls were made; the first found an entry whose parent
\* was routed already and one whose parent was not, and added a route
C20_Witness ==
    /\ Len(indexed) = 2
    /\ LET before == indexed[1].before
       IN /\ \E k \in DOMAIN before :
                 /\ Basename(k) = indexed[1].filename
                 /\ Parent(k) \in DOMAIN before
                 /\ before[Parent(k)] # before[k]
          /\ \E k \in DOMAIN before :
                 /\ Basename(k) = indexed[1].filename
                 /\ Parent(k) \notin DOMAIN before
                 /\ handler.dir[Parent(k)] = before[k]

\* the request headers the index routes are asked with
IndexRequestHeaders ==
    { RequestHeader(ae, Absent, Absent, rng) :
          ae \in {Absent, Present(<<"gzip">>)},
          rng \in {Absent, Present(BytesEq \o <<"1", "-", "2">>)} }

\* path p as a client writes it with a trailing slash
WithSlash(p) == IF p = <<"/">> THEN p ELSE p \o <<"/">>

\* the entries for which a SetIndex call had to add a route: their basename
\* is the call's name and their parent path was not routed before the call
IndexFiles ==
    { k \in UNION {DOMAIN indexed[c].before : c \in 1..Len(indexed)} :
          \E c \in 1..Len(indexed) :
              /\ k \in DOMAIN indexed[c].before
              /\ Basename(k) = indexed[c].filename
              /\ Parent(k) \notin DOMAIN indexed[c].before }

\* C21: once SetIndex(name) was applied with an entry /foo/name and no entry
\* /foo, requests for /foo/name, /foo/ and /foo resolve to the same entry and
\* get the same status, ETag, Content-Type and body (the whole response is
\* the same); likewise for /name and /.
C21_IndexRoutesServeSame ==
    \A k \in IndexFiles :
        /\ Parent(k) \in DOMAIN handler.dir
        /\ handler.dir[Parent(k)] = handler.dir[k]
        /\ \A m \in {"GET", "HEAD"}, hdr \in IndexRequestHeaders :
               LET r == ServeHTTPResponse(handler, Request(m, k, hdr))
               IN /\ r.status \in {200, 206}
                  /\ HGet(r.header, "Etag") = handler.dir[k].Etag
                  /\ HGet(r.header, "Content-Type") = handler.dir[k].ContentType
                  /\ m = "GET" => r.xfer.data = handler.dir[k].Uncompressed
                  /\ ServeHTTPResponse(handler, Request(m, Parent(k), hdr)) = r
                  /\ ServeHTTPResponse(handler,
                                       Request(m, WithSlash(Parent(k)), hdr)) = r

\* C21's case: one call added the route / for /i and the route /d for /d/i
C21_Witness ==
    /\ {<<"/", "i">>, <<"/", "d", "/", "i">>} \subseteq IndexFiles
    /\ handler.dir[<<"/">>] = handler.dir[<<"/", "i">>]
    /\ handler.dir[<<"/", "d">>] = handler.dir[<<"/", "d", "/", "i">>]

-----------------------------------------------------------------------------
(* Claims about the configured headers (checked under SpecServe).          *)

\* what a response is to give for key k after New and the SetHeader calls
\* made: the value of the most recent call for k, nothing (the empty
\* sequence) if that value was the empty string, and with no call for k
\* the value New installed, if any
ExpectedHeader(k) ==
    IF k \in DOMAIN lastset THEN lastset[k]
    ELSE IF k = "X-Frame-Options" THEN <<"sameorigin">>
    ELSE IF k = "X-Content-Type-Options" THEN <<"nosniff">>
    ELSE <<>>

\* C22: after New and any sequence of SetHeader calls, every response gives
\* for each key the value of the most recent call, nothing if that value was
\* the empty string; X-Frame-Options: sameorigin and X-Content-Type-Options:
\* nosniff are given exactly when no call overrode or removed them.
C22_HeadersAreLastSet ==
    req # NoReq =>
        /\ \A k \in HeaderKeys : HGet(rw.header, k) = ExpectedHeader(k)
        /\ wire.head # NoHead =>
               \A k \in HeaderKeys : HGet(wire.head.header, k) = ExpectedHeader(k)

-----------------------------------------------------------------------------
(* Claims about quality parameters in Accept-Encoding (SpecServe).         *)

\* the coding an Accept-Encoding element names: the element up to its first
\* ";", without the white space around it
Token(e) ==
    TrimSpace(IF IndexByte(e, ";") = 0 THEN e
              ELSE SubSeq(e, 1, IndexByte(e, ";") - 1))

\* the request names gzip or br with a parameter
NamesWithQuality ==
    /\ req # NoReq
    /\ \E e \in Range(Split(HGet(req.Header, "Accept-Encoding"), ",")) :
           IndexByte(e, ";") # 0 /\ Token(e) \in {<<"gzip">>, <<"br">>}

\* the encoding to serve when an element with a parameter counts as its
\* bare token
PreferredByToken(info, rq) ==
    LET listed == {Token(e) :
                      e \in Range(Split(HGet(rq.Header, "Accept-Encoding"), ","))}
    IN IF <<"br">> \in listed /\ info.Brotli # NoData THEN <<"br">>
       ELSE IF <<"gzip">> \in listed /\ info.Gzip # NoData THEN <<"gzip">>
       ELSE <<>>

\* C23: an Accept-Encoding element naming gzip or br with a quality parameter
\* counts as that encoding: the variant served is the one served for the
\* bare token.
C23_QualityIsPresence ==
    (FullOrPartial /\ NamesWithQuality) =>
        /\ HGet(rw.header, "Content-Encoding") = PreferredByToken(Entry, req)
        /\ req.Method = "GET" =>
               xfer.data = Variant(Entry, PreferredByToken(Entry, req))

-----------------------------------------------------------------------------
(* Claims about the headers of the wrapping middleware (SpecPackserver).   *)

\* C24: a header the middleware added before it called the handler is in the
\* response with the operator's value, whatever its name, X-Frame-Options
\* and X-Content-Type-Options included.
C24_MiddlewareHeadersKept ==
    req # NoReq =>
        /\ \A k \in DOMAIN extraHeaders : HGet(rw.header, k) = extraHeaders[k]
        /\ wire.head # NoHead =>
               \A k \in DOMAIN extraHeaders :
                   HGet(wire.head.header, k) = extraHeaders[k]

-----------------------------------------------------------------------------
(* Claims about sendfile's loop (SpecServeLive, SpecServe).                *)

\* C25: sendfile's loop always terminates, with remain = 0 or at the first
\* failure other than EAGAIN, a failure of the wait for the socket included:
\* a request that has entered the loop leaves it.
C25_LoopTerminates == (hpc = "loop") ~> (hpc = "done")

\* the first byte of the pack the response is to send, and the bytes of the
\* pack the socket has been given
FirstByte == xfer.data.Offset + xfer.offset

Sent == SumLen([i \in 1..Len(wire.body) |-> [j \in 1..wire.body[i].n |-> i]])

\* sendfile is on its fast path: the connection is hijacked and is a TCP one
FastPath == xfer # NoXfer /\ rw.kind = "tcp" /\ hpc \in {"flush", "loop", "done"}

\* the socket has the head and then a prefix of the response's range
SentIsPrefix ==
    /\ wire.head = HeadOf(rw)
    /\ Len(wire.body) <= 1
    /\ wire.body # <<>> =>
           /\ wire.body[1].src = "mapped"
           /\ wire.body[1].from = FirstByte
           /\ wire.body[1].n <= xfer.length

\* a step that gives bytes to the socket: it sends from the tracked offset,
\* which is the first unsent byte, at most min(remaining, 1 GiB) bytes, the
\* head being out already
SendIsInOrder ==
    (FastPath /\ hpc = "loop" /\ hpc' = "loop" /\ wire'.body # wire.body) =>
        /\ wire.head = HeadOf(rw)
        /\ sf.off = FirstByte + Sent
        /\ sf.remain = xfer.length - Sent
        /\ Sent' > Sent
        /\ Sent' - Sent <= Min(xfer.length - Sent, 1073741824)
        /\ sf'.off = FirstByte + Sent'

\* C26: on the fast path the head is out before the first body byte; the
\* bytes given to the socket are always a prefix, in increasing order, of the
\* pack bytes [data.Offset+offset, data.Offset+offset+length); each send asks
\* for at most min(remaining, 1 GiB) bytes from the tracked offset, which
\* after EAGAIN or a partial write is the first unsent byte; and when the
\* loop ends without an error exactly length bytes have been sent.
C26_SendsInOrder ==
    /\ [](FastPath =>
             /\ SentIsPrefix
             /\ (hpc = "loop" /\ sf.waits = 0 /\ ~sf.breakErr) =>
                    sf.off = FirstByte + Sent /\ sf.remain = xfer.length - Sent
             /\ (sf.off # 0 /\ ~sf.breakErr /\ sf.remain = 0) =>
                    Sent = xfer.length)
    /\ [][SendIsInOrder]_vars

\* C26's case: a partial write has sent the first byte of a range of four
\* and the loop goes on from the second
C26_Witness ==
    /\ FastPath /\ hpc = "loop"
    /\ xfer.length = 4
    /\ Sent = 1
    /\ sf.remain = 3
    /\ sf.off = FirstByte + 1

-----------------------------------------------------------------------------
(* Claims about CopyIfSaving (checked under SpecCopy).                     *)

\* the call made was for sizes that pass both thresholds
BothThresholds == copied.c + 128 <= copied.u
                      /\ copied.c + ShiftRight(copied.u, 7) <= copied.u

\* what CopyIfSaving returns for c and u on GateWriter when no call fails
Kept(c, u) == CopyIfSaving(GateWriter, <<"temp", "gzip">>, c, u, FALSE, FALSE).n

\* C27: when no system call fails, CopyIfSaving for sizes c and u appends the
\* c compressed bytes and returns c exactly when c+128 <= u and
\* c+(u>>7) <= u; otherwise it returns 0 with no error, appends nothing and
\* leaves the position where it was.  So nothing is kept for u < 128, and
\* there are sizes that pass one threshold and are not kept.
C27_GateDecides ==
    /\ (copied # NotCopied /\ copied.fail = "none") =>
           /\ ~copied.err
           /\ IF BothThresholds
              THEN /\ copied.n = copied.c
                   /\ pw.pos = copied.before.pos + copied.c
                   /\ pw.ext = copied.before.ext
                          \cup {e \in {[off |-> copied.before.pos,
                                        len |-> copied.c,
                                        src |-> <<"temp", "gzip">>]} : e.len > 0}
              ELSE copied.n = 0 /\ pw = copied.before
           /\ copied.u < 128 => copied.n = 0 /\ pw = copied.before
    /\ \E p \in GatePairs :
           p.c + 128 <= p.u /\ p.c > 0 /\ Kept(p.c, p.u) = 0
    /\ \E p \in GatePairs :
           p.c + ShiftRight(p.u, 7) <= p.u /\ p.c > 0 /\ Kept(p.c, p.u) = 0
    /\ \E p \in GatePairs : p.c > 0 /\ Kept(p.c, p.u) = p.c

\* C27's case: a call for sizes that pass the absolute threshold and fail the
\* relative one has returned 0 and has left the writer as it was
C27_Witness ==
    /\ copied # NotCopied
    /\ copied.fail = "none"
    /\ copied.c + 128 <= copied.u
    /\ ~BothThresholds
    /\ copied.n = 0 /\ ~copied.err
    /\ pw = copied.before

-----------------------------------------------------------------------------
(* Claims about requests with no conditional header (SpecServe).           *)

\* the request has neither If-None-Match nor If-Modified-Since
Unconditional ==
    /\ "If-None-Match" \notin DOMAIN req.Header
    /\ "If-Modified-Since" \notin DOMAIN req.Header

\* C28: a GET or HEAD for a path of the directory that has neither an
\* If-None-Match nor an If-Modified-Since header is never answered 304: the
\* response is 200 or 206 with the bytes of the selected variant, whatever
\* ETag the entry holds.
C28_UnconditionalIsServed ==
    (ForEntry /\ Unconditional) =>
        /\ rw.status # 304
        /\ rw.status \in {200, 206}
        /\ req.Method = "GET" => xfer # NoXfer /\ xfer.data = Selected

-----------------------------------------------------------------------------
(* Claims about the order of SetIndex's loop (SpecIndex).                  *)

\* the routing table after call c of SetIndex
TableAfter(c) ==
    IF c < Len(indexed) THEN indexed[c + 1].before ELSE handler.dir

\* C29: the routing table after SetIndex(name) is a function of the table
\* before the call and of name: whatever the order in which the loop visits
\* the map, and whether or not it visits the routes it has inserted, the
\* call ends with the same table.
C29_SetIndexIsDeterministic ==
    \A c \in 1..Len(indexed) :
        \A d \in SetIndexLoop(indexed[c].before, DOMAIN indexed[c].before, {},
                              indexed[c].filename) :
            d = TableAfter(c)

\* a route the loop inserts for name has itself the basename name
AliasNamedAsIndex(before, name) ==
    \E k \in DOMAIN before :
        /\ Basename(k) = name
        /\ Parent(k) \notin DOMAIN before
        /\ Basename(Parent(k)) = name

=============================================================================
